---- MODULE Spec2Model ----
(***************************************************************************)
(* A model of lib/cuckoo/core/plugins.py: the plugin registry, the         *)
(* auxiliary controller (RunAuxiliary) and the signature engine            *)
(* (RunSignatures).                                                        *)
(*                                                                         *)
(* Python strings that are only compared are TLA+ strings; strings that    *)
(* are parsed (version numbers) are sequences of one-character strings.    *)
(* A Python list is a sequence; `for x in lst` is modelled by the list     *)
(* iterator's index, so that a removal during the iteration has the        *)
(* effect it has in Python.                                                *)
(***************************************************************************)
EXTENDS Integers, Sequences, FiniteSets, TLC

(***************************************************************************)
(* Bounds of the model.                                                    *)
(***************************************************************************)
\* number of signature classes registered in the "signatures" group
NumSigs == 3
\* number of calls captured for each process of the trace
NumCalls == 2
\* number of classes registered in the "auxiliary" group
NumAux == 3

(***************************************************************************)
(* Generic sequence helpers.                                               *)
(***************************************************************************)
Range(s) == {s[i] : i \in DOMAIN s}

\* a removal that drops the list's last element instead (list.pop())
RemoveLast(s, x) == SubSeq(s, 1, Len(s)-1)

\* list.remove(x): delete the first element equal to x (x is in the list)
RemoveFirst(s, x) ==
    LET i == CHOOSE k \in DOMAIN s : s[k] = x /\ \A j \in 1..(k-1) : s[j] # x
    IN  SubSeq(s, 1, i-1) \o SubSeq(s, i+1, Len(s))

\* insert x into the sequence s, sorted by key, after every element whose
\* key is not greater (the step of a stable insertion sort)
RECURSIVE InsertByKey(_, _, _)
InsertByKey(s, x, key) ==
    IF s = <<>> THEN <<x>>
    ELSE IF key[x] < key[Head(s)] THEN <<x>> \o s
    ELSE <<Head(s)>> \o InsertByKey(Tail(s), x, key)

\* list.sort(key=...): a stable sort of the sequence of ids s by key[id]
RECURSIVE SortByKey(_, _)
SortByKey(s, key) ==
    IF s = <<>> THEN <<>>
    ELSE InsertByKey(SortByKey(SubSeq(s, 1, Len(s)-1), key), s[Len(s)], key)

(***************************************************************************)
(* distutils.version.StrictVersion, on sequences of characters.            *)
(***************************************************************************)
Digits == {"0", "1", "2", "3", "4", "5", "6", "7", "8", "9"}

DigitVal(c) ==
    CASE c = "0" -> 0 [] c = "1" -> 1 [] c = "2" -> 2 [] c = "3" -> 3
      [] c = "4" -> 4 [] c = "5" -> 5 [] c = "6" -> 6 [] c = "7" -> 7
      [] c = "8" -> 8 [] c = "9" -> 9

\* s.split("-")[0]: the part of s before its first "-"
RECURSIVE SplitDash(_)
SplitDash(s) ==
    IF s = <<>> \/ Head(s) = "-" THEN <<>>
    ELSE <<Head(s)>> \o SplitDash(Tail(s))

\* the length of the longest prefix of s made of digits (the regex \d+)
RECURSIVE DigitRun(_)
DigitRun(s) ==
    IF s = <<>> \/ Head(s) \notin Digits THEN 0 ELSE 1 + DigitRun(Tail(s))

\* int() of a sequence of digits
RECURSIVE ToInt(_)
ToInt(s) ==
    IF s = <<>> THEN 0
    ELSE 10 * ToInt(SubSeq(s, 1, Len(s)-1)) + DigitVal(s[Len(s)])

Drop(s, n) == SubSeq(s, n+1, Len(s))

\* StrictVersion.parse: ^(\d+)\.(\d+)(\.(\d+))?([ab](\d+))?$
\* ok = FALSE stands for the ValueError("invalid version number")
StrictVersion(s) ==
    LET bad == [ok |-> FALSE, version |-> <<0, 0, 0>>, prerelease |-> <<>>]
        n1  == DigitRun(s)
        r1  == Drop(s, n1)
    IN  IF n1 = 0 \/ r1 = <<>> \/ Head(r1) # "." THEN bad
        ELSE
        LET r2 == Tail(r1)
            n2 == DigitRun(r2)
            r3 == Drop(r2, n2)
        IN  IF n2 = 0 THEN bad
            ELSE
            LET hasPatch == r3 # <<>> /\ Head(r3) = "." /\ DigitRun(Tail(r3)) > 0
                n3 == IF hasPatch THEN DigitRun(Tail(r3)) ELSE 0
                patch == IF hasPatch THEN ToInt(SubSeq(Tail(r3), 1, n3)) ELSE 0
                r4 == IF hasPatch THEN Drop(Tail(r3), n3) ELSE r3
                hasPre == r4 # <<>> /\ Head(r4) \in {"a", "b"} /\ DigitRun(Tail(r4)) > 0
                n4 == IF hasPre THEN DigitRun(Tail(r4)) ELSE 0
                r5 == IF hasPre THEN Drop(Tail(r4), n4) ELSE r4
            IN  IF r5 # <<>> THEN bad
                ELSE [ok |-> TRUE,
                      version |-> <<ToInt(SubSeq(s, 1, n1)), ToInt(SubSeq(r2, 1, n2)), patch>>,
                      prerelease |-> IF hasPre
                                     THEN <<Head(r4), ToInt(SubSeq(Tail(r4), 1, n4))>>
                                     ELSE <<>>]

\* cmp of two tuples of three integers
TupleCmp(a, b) ==
    IF a[1] # b[1] THEN (IF a[1] < b[1] THEN -1 ELSE 1)
    ELSE IF a[2] # b[2] THEN (IF a[2] < b[2] THEN -1 ELSE 1)
    ELSE IF a[3] # b[3] THEN (IF a[3] < b[3] THEN -1 ELSE 1)
    ELSE 0

\* StrictVersion.__cmp__ of two parsed versions
VersionCmp(v, w) ==
    IF TupleCmp(v.version, w.version) # 0 THEN TupleCmp(v.version, w.version)
    ELSE IF v.prerelease = <<>> /\ w.prerelease = <<>> THEN 0
    ELSE IF v.prerelease # <<>> /\ w.prerelease = <<>> THEN -1
    ELSE IF v.prerelease = <<>> /\ w.prerelease # <<>> THEN 1
    ELSE IF v.prerelease[1] # w.prerelease[1]
         THEN (IF v.prerelease[1] = "a" THEN -1 ELSE 1)
    ELSE IF v.prerelease[2] < w.prerelease[2] THEN -1
    ELSE IF v.prerelease[2] > w.prerelease[2] THEN 1
    ELSE 0

\* the running version, "1.5-dev"
CUCKOO_VERSION == <<"1", ".", "5", "-", "d", "e", "v">>

(***************************************************************************)
(* The signature classes of the plugin package.  Each class carries the    *)
(* class attributes the engine reads; NumSigs of them are registered.      *)
(***************************************************************************)
NoFilter == {}
NoVersion == <<>>

SigBase ==
    [name |-> "", enabled |-> TRUE, evented |-> TRUE,
     minimum |-> NoVersion, maximum |-> NoVersion,
     order |-> 1, severity |-> 1, confidence |-> 100, weight |-> 1,
     families |-> <<>>,
     filter_processnames |-> NoFilter, filter_apinames |-> NoFilter,
     filter_categories |-> NoFilter, filter_analysistypes |-> NoFilter]

SigClasses ==
    [SigA |-> [SigBase EXCEPT !.name = "SigA", !.order = 2, !.severity = 2],
     SigB |-> [SigBase EXCEPT !.name = "SigB", !.order = 1, !.severity = 1,
                              !.filter_apinames = {"NtWriteFile"},
                              !.filter_analysistypes = {"file"}],
     SigC |-> [SigBase EXCEPT !.name = "SigC", !.evented = FALSE,
                              !.order = 1, !.severity = 3,
                              !.families = << <<"z", "e", "u", "S">> >>],
     SigD |-> [SigBase EXCEPT !.name = "SigD", !.order = 3, !.severity = 2,
                              !.minimum = <<"1", ".", "0">>,
                              !.maximum = <<"1", ".", "5">>,
                              !.filter_processnames = {"b.exe"}],
     SigE |-> [SigBase EXCEPT !.name = "SigE", !.enabled = FALSE,
                              !.order = 2, !.severity = 1,
                              !.maximum = <<"1", ".", "4">>,
                              !.filter_categories = {"registry"},
                              !.filter_analysistypes = {"url"}]]

SigIds == DOMAIN SigClasses

\* the orders in which the package's modules can be loaded
LoadOrders ==
    { <<"SigA", "SigB", "SigC", "SigD", "SigE">>,
      <<"SigE", "SigD", "SigC", "SigB", "SigA">>,
      <<"SigC", "SigA", "SigD", "SigB", "SigE">> }

\* the registries register_plugin can have built: n of the classes, appended
\* to the group's list in a load order
Registrations(n) ==
    { SelectSeq(order, LAMBDA c : c \in chosen) :
        order \in LoadOrders,
        chosen \in {S \in SUBSET SigIds : Cardinality(S) = n} }

(***************************************************************************)
(* What the hooks of each class can do when the engine invokes them: the   *)
(* constructor (init) returns or raises; on_call returns None, True or     *)
(* False or raises; on_complete and run likewise ("False" stands for any   *)
(* result that is not True, "falsy"/"truthy" for the truth value of run's  *)
(* result); slow tells whether a hook's measured time can be non-zero,     *)
(* zero, or both.  A class that does not implement a hook inherits the     *)
(* base class's, which raises NotImplementedError.                         *)
(***************************************************************************)
SigHooks ==
    [SigA |-> [init |-> {"ok"},
               on_call |-> {"None", "True", "False"},
               on_complete |-> {"True", "False"},
               run |-> {"truthy", "NotImplementedError"},
               slow |-> {TRUE, FALSE}],
     SigB |-> [init |-> {"ok", "Exception"},
               on_call |-> {"None", "False", "NotImplementedError", "Exception"},
               on_complete |-> {"True", "NotImplementedError", "Exception"},
               run |-> {"NotImplementedError"},
               slow |-> {TRUE}],
     SigC |-> [init |-> {"ok", "Exception"},
               on_call |-> {"None", "True"},
               on_complete |-> {"NotImplementedError"},
               run |-> {"truthy", "falsy", "Exception"},
               slow |-> {TRUE}],
     SigD |-> [init |-> {"ok"},
               on_call |-> {"None", "True", "Exception"},
               on_complete |-> {"False", "True"},
               run |-> {"truthy", "NotImplementedError"},
               slow |-> {FALSE}],
     SigE |-> [init |-> {"ok"},
               on_call |-> {"None", "True"},
               on_complete |-> {"False"},
               run |-> {"truthy", "falsy"},
               slow |-> {TRUE}]]

(***************************************************************************)
(* The contents data/signature_overlay.json can have: a mapping from a     *)
(* signature name to attribute overrides.                                  *)
(***************************************************************************)
EmptyOverlay == [n \in {} |-> <<>>]

Overlays ==
    { [n \in {"SigA", "SigC"} |->
          IF n = "SigA" THEN [severity |-> 9]
          ELSE [evented |-> TRUE, severity |-> 9]],
      [n \in {"SigA", "SigD"} |->
          IF n = "SigA" THEN [enabled |-> FALSE]
          ELSE [minimum |-> <<"1", ".", "6">>]],
      [n \in {"SigB", "SigE"} |->
          IF n = "SigB"
          THEN [filter_analysistypes |-> {"url"}, maximum |-> <<"x", ".", "y">>]
          ELSE [enabled |-> TRUE, maximum |-> <<"2", ".", "0">>,
                filter_analysistypes |-> NoFilter]] }

OverlayFiles ==
    {[exists |-> FALSE, data |-> EmptyOverlay]}
        \cup {[exists |-> TRUE, data |-> o] : o \in Overlays}

(***************************************************************************)
(* The behaviour telemetry: results["behavior"]["processes"].              *)
(***************************************************************************)
ProcessNames == <<"a.exe", "b.exe">>

Call(p, c) ==
    [api |-> IF (p + c) % 2 = 0 THEN "NtCreateFile" ELSE "NtWriteFile",
     category |-> IF c % 2 = 1 THEN "filesystem" ELSE "registry"]

Processes ==
    [p \in DOMAIN ProcessNames |->
        [process_name |-> ProcessNames[p],
         calls |-> [c \in 1..NumCalls |-> Call(p, c)]]]

(***************************************************************************)
(* State.                                                                  *)
(***************************************************************************)
VARIABLES
    _modules,       \* the registry: group -> list of registered classes
    classes,        \* signature class id -> its class attributes
    overlay_file,   \* data/signature_overlay.json
    results,        \* the result aggregate of the task
    pc,             \* the statement RunSignatures.run is at
    evented_list,   \* the list of evented signature instances
    instances,      \* evented instance -> its instance attributes
    matched,        \* the list of Match Records
    stats,          \* signature name -> accumulated time is non-zero
    proc_i,         \* index of the process of the trace loop
    call_i,         \* index of the call of the trace loop
    iter,           \* index of the list iterator over evented_list / complete_list
    active0,        \* history: evented_list when the current call was reached
    visited,        \* history: instances whose on_call ran for the current call
    outcome,        \* history: class -> how its evented instance resolved
    n_complete,     \* history: class -> number of on_complete invocations
    n_run,          \* history: class -> number of run invocations
    ev,             \* history: the hook invoked by the last step
    partition0,     \* history: the classes put in evented_list by run
    modules0,       \* history: the registry at the start
    aux_cfg,        \* auxiliary.conf: class -> its section is missing,
                    \* disabled or enabled
    aux_pc,         \* the statement RunAuxiliary is at
    aux_enabled,    \* RunAuxiliary.enabled: the started instances
    aux_iter,       \* index of the list iterator of start / stop
    aux_status,     \* history: auxiliary class -> outcome of start
    aux_stops,      \* history: auxiliary class -> outcomes of its stop invocations
    cursor,         \* process -> read position of its call log
    consumed,       \* history: the classes whose run() moved a call-log cursor
    _modules_type,  \* group -> the type of the registry's value: list or dict
    reg_ev,         \* history: the last call made to the registry
    reg_calls,      \* number of calls made to the registry
    chk,            \* the arguments and result of _check_signature_version
    pl_stage,       \* the pipeline engine at work: processing or reporting
    pl_pc,          \* the statement RunProcessing.run / RunReporting.run is at
    pl_iter,        \* index of the list iterator over the stage's list
    pl_cfg,         \* processing.conf / reporting.conf: module -> its section
    pl_status,      \* history: module -> outcome of process(module)
    pl_stats,       \* results["statistics"][stage]: the names of the entries
    pl_results,     \* the keys merged into the results: key -> writing module
    pl_trace        \* history: the modules process() was called with, in order

sigvars == <<_modules, classes, overlay_file, results, pc, evented_list,
             instances, matched, stats, proc_i, call_i, iter, active0,
             visited, outcome, n_complete, n_run, ev, partition0, modules0,
             cursor, consumed>>

auxvars == <<aux_cfg, aux_pc, aux_enabled, aux_iter, aux_status, aux_stops>>

regvars == <<_modules_type, reg_ev, reg_calls>>

plvars == <<pl_stage, pl_pc, pl_iter, pl_cfg, pl_status, pl_stats, pl_results,
            pl_trace>>

\* the state of the engines other than RunSignatures and RunAuxiliary
othervars == <<regvars, chk, plvars>>

vars == <<sigvars, auxvars, othervars>>

\* list_plugins(group)
list_plugins(group) == _modules[group]

\* complete_list is the registry's own list object, not a copy
complete_list == list_plugins("signatures")

\* getattr(instance, attr): the instance's attribute, else its class's
GetAttr(sig, attr) ==
    IF attr \in DOMAIN instances[sig] THEN instances[sig][attr]
    ELSE classes[sig][attr]

NoEvent == [hook |-> "none", sig |-> "", result |-> "none"]

(***************************************************************************)
(* RunSignatures: helpers.                                                 *)
(***************************************************************************)
\* open() of the overlay file: its data, or {} on IOError
_load_overlay == IF overlay_file.exists THEN overlay_file.data ELSE EmptyOverlay

\* setattr(signature, attr, value) for every attr of overlay[signature.name];
\* attrs are the attributes the object (class or instance) holds itself
_apply_overlay(attrs, name, overlay) ==
    IF name \in DOMAIN overlay
    THEN [a \in DOMAIN attrs \cup DOMAIN overlay[name] |->
            IF a \in DOMAIN overlay[name] THEN overlay[name][a] ELSE attrs[a]]
    ELSE attrs

\* a check that also skips a signature whose bound is the running version
_check_exclusive_bounds(minimum, maximum) ==
    LET running == StrictVersion(SplitDash(CUCKOO_VERSION))
        lo == StrictVersion(SplitDash(minimum))
        hi == StrictVersion(SplitDash(maximum))
    IN  /\ minimum = NoVersion
           \/ (running.ok /\ lo.ok /\ VersionCmp(running, lo) > 0)
        /\ maximum = NoVersion
           \/ (running.ok /\ hi.ok /\ VersionCmp(running, hi) < 0)

\* True, or None when the running version is outside [minimum, maximum] or
\* a StrictVersion constructor raises ValueError
_check_signature_version(minimum, maximum) ==
    LET version == SplitDash(CUCKOO_VERSION)
        running == StrictVersion(version)
        lo == StrictVersion(SplitDash(minimum))
        hi == StrictVersion(SplitDash(maximum))
        minOk == \/ minimum = NoVersion
                 \/ /\ running.ok /\ lo.ok
                    /\ ~(VersionCmp(running, lo) < 0)
        maxOk == \/ maximum = NoVersion
                 \/ /\ running.ok /\ hi.ok
                    /\ ~(VersionCmp(running, hi) > 0)
    IN  minOk /\ maxOk

\* not sig.filter_analysistypes or results["target"]["category"] in it
AnalysisTypeOk(filter) == filter = NoFilter \/ results.category \in filter

\* the condition of the list comprehension that builds evented_list
IsEventedCandidate(c) ==
    /\ classes[c].enabled
    /\ classes[c].evented
    /\ _check_signature_version(classes[c].minimum, classes[c].maximum)
    /\ AnalysisTypeOk(classes[c].filter_analysistypes)

\* the three per-call filters of the evented loop
CallAccepted(sig, proc, call) ==
    /\ GetAttr(sig, "filter_processnames") = NoFilter
          \/ proc.process_name \in GetAttr(sig, "filter_processnames")
    /\ GetAttr(sig, "filter_apinames") = NoFilter
          \/ call.api \in GetAttr(sig, "filter_apinames")
    /\ GetAttr(sig, "filter_categories") = NoFilter
          \/ call.category \in GetAttr(sig, "filter_categories")

\* Signature.as_result() of an object of class sig whose attributes read attrs
MatchRecord(sig, attrs) ==
    [sig |-> sig, name |-> attrs.name, severity |-> attrs.severity,
     confidence |-> attrs.confidence, weight |-> attrs.weight,
     families |-> attrs.families]

\* as_result() of an evented instance
as_result(sig) ==
    MatchRecord(sig, [a \in DOMAIN classes[sig] |-> GetAttr(sig, a)])

\* as_result() of a fresh instance of class c (the batch pass)
as_result_fresh(c) == MatchRecord(c, classes[c])

CurrentProc == Processes[proc_i]
CurrentCall == CurrentProc.calls[call_i]

(***************************************************************************)
(* The call logs: process["calls"] is an iterator object that keeps a read *)
(* position; cursor[p] is the number of calls of process p it has handed   *)
(* out since it was last at its initial position.                          *)
(***************************************************************************)
InitialCursor == [p \in DOMAIN Processes |-> 0]

\* next() of the call log of process p: hand out its next call
Advance(c, p) == [c EXCEPT ![p] = @ + 1]

\* next() of the call log of process p once every call is handed out: the
\* traversal ends and leaves the log at its initial position
Exhaust(c, p) == [c EXCEPT ![p] = 0]

\* what run() of a class can read of the call logs before it returns or
\* raises: nothing, the first call of the first process, or every call
RunReads ==
    [SigA |-> {"part"}, SigB |-> {"none"}, SigC |-> {"none", "all"},
     SigD |-> {"none"}, SigE |-> {"all"}]

\* the cursors after a run() that read the logs as said by how
Consume(c, how) ==
    IF how = "part" THEN [c EXCEPT ![1] = 1]
    ELSE IF how = "all" THEN [p \in DOMAIN c |-> NumCalls]
    ELSE c

\* a batch loop that leaves the call logs where run() left them
NoReset(c) == c

\* lines 486-487: process["calls"].reset() for every process
ResetCursors(c) == [p \in DOMAIN c |-> 0]

(***************************************************************************)
(* RunSignatures.run, statement by statement.                              *)
(***************************************************************************)
histvars == <<active0, visited, outcome, n_complete, n_run, partition0, modules0>>

\* lines 378-382: build evented_list; a constructor that raises ends run
Partition ==
    /\ pc = "start"
    /\ LET cand == SelectSeq(complete_list, IsEventedCandidate)
       IN  \E raises \in BOOLEAN :
             /\ raises => \E c \in Range(cand) : "Exception" \in SigHooks[c].init
             /\ IF raises
                THEN /\ pc' = "raised"
                     /\ ev' = [hook |-> "init", sig |-> "", result |-> "Exception"]
                     /\ UNCHANGED <<evented_list, partition0>>
                ELSE /\ pc' = "overlay"
                     /\ evented_list' = cand
                     /\ partition0' = Range(cand)
                     /\ ev' = NoEvent
    /\ UNCHANGED <<_modules, classes, overlay_file, results, instances, matched,
                   stats, proc_i, call_i, iter, active0, visited, outcome,
                   n_complete, n_run, modules0, cursor, consumed, auxvars,
                   othervars>>

\* an overlay loop over evented_list alone
OverlayInstancesOnly == [cls |-> {}, inst |-> Range(evented_list)]

\* the objects the overlay loop of lines 386-387 visits
OverlayTargets == [cls |-> Range(complete_list), inst |-> Range(evented_list)]

\* lines 384-387: apply the overlay to complete_list + evented_list
ApplyOverlay ==
    /\ pc = "overlay"
    /\ LET overlay == _load_overlay
           newcls == [c \in SigIds |->
                        IF c \in OverlayTargets.cls
                        THEN _apply_overlay(classes[c], classes[c].name, overlay)
                        ELSE classes[c]]
       IN  /\ classes' = newcls
           /\ instances' = [c \in SigIds |->
                        IF c \in OverlayTargets.inst
                        THEN _apply_overlay(instances[c],
                               IF "name" \in DOMAIN instances[c]
                               THEN instances[c].name ELSE newcls[c].name,
                               overlay)
                        ELSE instances[c]]
    /\ pc' = "evented"
    /\ ev' = NoEvent
    /\ UNCHANGED <<_modules, overlay_file, results, evented_list, matched, stats,
                   proc_i, call_i, iter, histvars, cursor, consumed, auxvars,
                   othervars>>

\* lines 389-396: decide whether the evented pass runs
EventedBegin ==
    /\ pc = "evented"
    /\ IF evented_list # <<>> /\ results.behavior
       THEN /\ stats' = [n \in {GetAttr(s, "name") : s \in Range(evented_list)} |-> FALSE]
            /\ pc' = "calls"
            /\ proc_i' = 1
            /\ call_i' = 1
            /\ iter' = 1
            /\ active0' = evented_list
            /\ cursor' = Advance(cursor, 1)
       ELSE /\ pc' = "link"
            /\ UNCHANGED <<stats, proc_i, call_i, iter, active0, cursor>>
    /\ ev' = NoEvent
    /\ UNCHANGED <<_modules, classes, overlay_file, results, evented_list,
                   instances, matched, visited, outcome, n_complete, n_run,
                   partition0, modules0, consumed, auxvars, othervars>>

Raised(r) == r \in {"NotImplementedError", "Exception"}

\* handlers that leave result as line 411 set it
CaughtAsNone(r) == IF Raised(r) THEN "None" ELSE r

\* lines 411-422: the value of result after the try statement around
\* on_call; both handlers set it to False
Caught(r) == IF Raised(r) THEN "False" ELSE r

\* a test that takes every returned value but None for a match
OnMatchNotNone(m, r, record) ==
    IF r # "None" /\ ~Raised(r) THEN Append(m, record) ELSE m

\* lines 430-432 and 454-456: `if result is True: matched.append(...)`
OnMatch(m, r, record) == IF r = "True" THEN Append(m, record) ELSE m

\* stats[name] += timediff, which a hook that raised does not reach
AddTime(name, r, elapsed) ==
    IF Raised(r) THEN stats ELSE [stats EXCEPT ![name] = @ \/ elapsed]

\* lines 402-438: one turn of `for sig in evented_list` for the current call
EventedStep ==
    /\ pc = "calls"
    /\ iter <= Len(evented_list)
    /\ LET sig == evented_list[iter]
       IN  IF ~CallAccepted(sig, CurrentProc, CurrentCall)
           THEN /\ ev' = NoEvent
                /\ UNCHANGED <<evented_list, matched, stats, visited, outcome>>
           ELSE \E r \in SigHooks[sig].on_call, elapsed \in SigHooks[sig].slow :
                /\ ev' = [hook |-> "on_call", sig |-> sig, result |-> r]
                /\ visited' = Append(visited, sig)
                /\ stats' = AddTime(GetAttr(sig, "name"), r, elapsed)
                /\ matched' = OnMatch(matched, r, as_result(sig))
                /\ evented_list' = IF Caught(r) = "None" THEN evented_list
                                   ELSE RemoveFirst(evented_list, sig)
                /\ outcome' = IF Caught(r) = "None" THEN outcome
                              ELSE [outcome EXCEPT ![sig] =
                                      IF r = "True" THEN "matched"
                                      ELSE IF r = "False" THEN "notmatched"
                                      ELSE "raised"]
    /\ iter' = iter + 1
    /\ UNCHANGED <<_modules, classes, overlay_file, results, pc, instances,
                   proc_i, call_i, active0, n_complete, n_run, partition0,
                   modules0, cursor, consumed, auxvars, othervars>>

\* lines 399-400: the list iterator is exhausted: next call, next process,
\* or the end of the trace
NextCall ==
    /\ pc = "calls"
    /\ iter > Len(evented_list)
    /\ IF call_i < Len(CurrentProc.calls)
       THEN /\ call_i' = call_i + 1
            /\ cursor' = Advance(cursor, proc_i)
            /\ UNCHANGED <<proc_i, pc>>
       ELSE IF proc_i < Len(Processes)
       THEN /\ proc_i' = proc_i + 1
            /\ call_i' = 1
            /\ cursor' = Advance(Exhaust(cursor, proc_i), proc_i + 1)
            /\ pc' = pc
       ELSE /\ pc' = "complete"
            /\ cursor' = Exhaust(cursor, proc_i)
            /\ UNCHANGED <<proc_i, call_i>>
    /\ iter' = 1
    /\ active0' = evented_list
    /\ visited' = <<>>
    /\ ev' = NoEvent
    /\ UNCHANGED <<_modules, classes, overlay_file, results, evented_list,
                   instances, matched, stats, outcome, n_complete, n_run,
                   partition0, modules0, consumed, auxvars, othervars>>

\* lines 441-458: on_complete of one remaining instance, or the loop's end
OnComplete ==
    /\ pc = "complete"
    /\ IF iter <= Len(evented_list)
       THEN LET sig == evented_list[iter]
            IN  \E r \in SigHooks[sig].on_complete, elapsed \in SigHooks[sig].slow :
                /\ ev' = [hook |-> "on_complete", sig |-> sig, result |-> r]
                /\ n_complete' = [n_complete EXCEPT ![sig] = @ + 1]
                /\ stats' = AddTime(GetAttr(sig, "name"), r, elapsed)
                /\ matched' = OnMatch(matched, r, as_result(sig))
                /\ iter' = iter + 1
                /\ pc' = pc
       ELSE /\ pc' = "link"
            /\ ev' = NoEvent
            /\ UNCHANGED <<n_complete, stats, matched, iter>>
    /\ UNCHANGED <<_modules, classes, overlay_file, results, evented_list,
                   instances, proc_i, call_i, active0, visited, outcome, n_run,
                   partition0, modules0, cursor, consumed, auxvars, othervars>>

\* results["signatures"] before line 461: the key is not set
NoSignatures == [linked |-> FALSE, value |-> <<>>]

\* an assignment that stores a copy of the match list as it is then
CopyOf(m) == [linked |-> FALSE, value |-> m]

\* line 461, self.results["signatures"] = matched: the key refers to the
\* list object matched itself, whatever it holds later
Link(m) == [linked |-> TRUE, value |-> <<>>]

\* the list a reader of results["signatures"] gets
ResultsSignatures ==
    IF results.signatures.linked THEN matched ELSE results.signatures.value

\* a statistics loop that appends the accumulator of every name
AnyTime(value) == TRUE

\* line 465, `if value:`: a timedelta is true when it is not zero
TookTime(value) == value

\* lines 460-470: link the match list into the results and append the
\* statistics entry of every evented signature whose accumulated time is
\* non-zero (results.statistics counts the entries of each name)
LinkResults ==
    /\ pc = "link"
    /\ results' = [results EXCEPT
          !.keys = @ \cup {"signatures"},
          !.signatures = Link(matched),
          !.statistics = [n \in DOMAIN @ \cup {k \in DOMAIN stats : TookTime(stats[k])} |->
                            (IF n \in DOMAIN @ THEN @[n] ELSE 0)
                            + (IF n \in DOMAIN stats /\ TookTime(stats[n]) THEN 1 ELSE 0)]]
    /\ pc' = "batch_begin"
    /\ ev' = NoEvent
    /\ UNCHANGED <<_modules, classes, overlay_file, evented_list, instances,
                   matched, stats, proc_i, call_i, iter, histvars, cursor,
                   consumed, auxvars, othervars>>

\* complete_list.sort(key=lambda sig: sig.order), on the registry's own list
SortedCompleteList ==
    SortByKey(complete_list, [c \in SigIds |-> classes[c].order])

\* lines 473-475: sort complete_list in place and start the compat loop
BatchBegin ==
    /\ pc = "batch_begin"
    /\ IF complete_list # <<>>
       THEN /\ _modules' = [_modules EXCEPT !["signatures"] = SortedCompleteList]
            /\ pc' = "batch"
            /\ iter' = 1
       ELSE /\ pc' = "aggregate"
            /\ UNCHANGED <<_modules, iter>>
    /\ ev' = NoEvent
    /\ UNCHANGED <<classes, overlay_file, results, evented_list, instances,
                   matched, stats, proc_i, call_i, histvars, cursor, consumed,
                   auxvars, othervars>>

\* statistics with one more entry for name
AddStatistic(st, name) ==
    [n \in DOMAIN st \cup {name} |->
        (IF n \in DOMAIN st THEN st[n] ELSE 0) + (IF n = name THEN 1 ELSE 0)]

\* lines 477-487 with process (lines 321-369): one turn of the compat loop,
\* or its end.  self.results is never empty here (line 461 has set
\* "signatures"), so process does not return at line 328.  A run() that
\* returns or raises an exception of its own may have read the call logs;
\* when the aggregate holds behaviour telemetry the loop then resets them.
BatchStep ==
    /\ pc = "batch"
    /\ IF iter <= Len(complete_list)
       THEN LET signature == complete_list[iter]
            IN  /\ iter' = iter + 1
                /\ pc' = pc
                /\ IF ~AnalysisTypeOk(classes[signature].filter_analysistypes)
                   THEN /\ ev' = NoEvent
                        /\ UNCHANGED <<results, matched, n_run, cursor, consumed>>
                   ELSE \E init \in SigHooks[signature].init :
                        IF init # "ok"
                        THEN /\ ev' = [hook |-> "init", sig |-> signature,
                                       result |-> "Exception"]
                             /\ cursor' = IF results.behavior
                                          THEN ResetCursors(cursor) ELSE cursor
                             /\ UNCHANGED <<results, matched, n_run, consumed>>
                        ELSE IF \/ ~classes[signature].enabled
                                \/ ~_check_signature_version(
                                        classes[signature].minimum,
                                        classes[signature].maximum)
                        THEN /\ ev' = [hook |-> "init", sig |-> signature,
                                       result |-> "None"]
                             /\ cursor' = IF results.behavior
                                          THEN ResetCursors(cursor) ELSE cursor
                             /\ UNCHANGED <<results, matched, n_run, consumed>>
                        ELSE \E r \in SigHooks[signature].run :
                             \E how \in IF results.behavior /\ r # "NotImplementedError"
                                        THEN RunReads[signature] ELSE {"none"} :
                             /\ ev' = [hook |-> "run", sig |-> signature, result |-> r]
                             /\ n_run' = [n_run EXCEPT ![signature] = @ + 1]
                             /\ results' = IF Raised(r) THEN results
                                   ELSE [results EXCEPT !.statistics =
                                           AddStatistic(@, classes[signature].name)]
                             /\ matched' = IF r = "truthy"
                                   THEN Append(matched, as_result_fresh(signature))
                                   ELSE matched
                             /\ consumed' = IF how = "none" THEN consumed
                                            ELSE consumed \cup {signature}
                             /\ cursor' = IF results.behavior
                                          THEN ResetCursors(Consume(cursor, how))
                                          ELSE cursor
       ELSE /\ pc' = "aggregate"
            /\ ev' = NoEvent
            /\ UNCHANGED <<iter, results, matched, n_run, cursor, consumed>>
    /\ UNCHANGED <<_modules, classes, overlay_file, evented_list, instances,
                   stats, proc_i, call_i, active0, visited, outcome, n_complete,
                   partition0, modules0, auxvars, othervars>>

(***************************************************************************)
(* Aggregation: lines 489-568.                                             *)
(***************************************************************************)
\* a sort by severity that puts a record before the records of its severity
RECURSIVE UnstableSortMatches(_)
UnstableSortMatches(m) ==
    IF m = <<>> THEN <<>>
    ELSE LET rest == UnstableSortMatches(SubSeq(m, 1, Len(m)-1))
             x == m[Len(m)]
             k == Cardinality({i \in DOMAIN rest : rest[i].severity < x.severity})
         IN  SubSeq(rest, 1, k) \o <<x>> \o SubSeq(rest, k+1, Len(rest))

\* matched.sort(key=lambda key: key["severity"]): a stable insertion sort
RECURSIVE SortMatches(_)
SortMatches(m) ==
    IF m = <<>> THEN <<>>
    ELSE LET rest == SortMatches(SubSeq(m, 1, Len(m)-1))
             x == m[Len(m)]
             k == Cardinality({i \in DOMAIN rest : rest[i].severity <= x.severity})
         IN  SubSeq(rest, 1, k) \o <<x>> \o SubSeq(rest, k+1, Len(rest))

\* the contribution of one match to malscore, in units of 1/200
MatchScore(match) ==
    IF match.severity = 1
    THEN match.weight * match.confidence
    ELSE 2 * match.weight * (match.severity - 1) * match.confidence

RECURSIVE SumScores(_)
SumScores(m) == IF m = <<>> THEN 0 ELSE MatchScore(Head(m)) + SumScores(Tail(m))

\* a score that is the plain sum of the contributions
MalscoreUnclamped(m) == SumScores(m)

\* malscore clamped to [0.0, 10.0], in units of 1/200
Malscore(m) ==
    LET total == SumScores(m)
    IN  IF total > 2000 THEN 2000 ELSE IF total < 0 THEN 0 ELSE total

Lowers == <<"a", "b", "c", "d", "e", "f", "g", "h", "i", "j", "k", "l", "m",
            "n", "o", "p", "q", "r", "s", "t", "u", "v", "w", "x", "y", "z">>
Uppers == <<"A", "B", "C", "D", "E", "F", "G", "H", "I", "J", "K", "L", "M",
            "N", "O", "P", "Q", "R", "S", "T", "U", "V", "W", "X", "Y", "Z">>
IndexIn(t, c) == CHOOSE i \in DOMAIN t : t[i] = c

\* str.title(): a cased character is upper case after an uncased one (or at
\* the start) and lower case after a cased one
RECURSIVE TitleFrom(_, _)
TitleFrom(s, prevCased) ==
    IF s = <<>> THEN <<>>
    ELSE LET c == Head(s)
         IN  IF c \in Range(Lowers)
             THEN <<IF prevCased THEN c ELSE Uppers[IndexIn(Lowers, c)]>>
                      \o TitleFrom(Tail(s), TRUE)
             ELSE IF c \in Range(Uppers)
             THEN <<IF prevCased THEN Lowers[IndexIn(Uppers, c)] ELSE c>>
                      \o TitleFrom(Tail(s), TRUE)
             ELSE <<c>> \o TitleFrom(Tail(s), FALSE)

Title(s) == TitleFrom(s, FALSE)

\* lines 505-510: the first match with a non-empty family list
RECURSIVE FamilyFromMatches(_)
FamilyFromMatches(m) ==
    IF m = <<>> THEN <<>>
    ELSE IF Head(m).families # <<>> THEN Title(Head(m).families[1])
    ELSE FamilyFromMatches(Tail(m))

\* a guard that lets a rule run whatever the family found so far
AnyFamily(family) == TRUE

\* `not family`: no rule has yielded a name yet
NotFamily(family) == family = <<>>

\* lines 512-518: the detection names of the engines, Microsoft's twice
RECURSIVE DetectNames(_)
DetectNames(vt) ==
    IF vt = <<>> THEN <<>>
    ELSE LET res == Head(vt)
         IN  (IF res.sig = <<>> THEN <<>>
              ELSE IF res.vendor = "Microsoft" THEN <<res.sig, res.sig>>
              ELSE <<res.sig>>) \o DetectNames(Tail(vt))

\* the naming-consensus collaborator: the name found most often in the list
\* (the first of them on a tie), no name for an empty list
get_vt_consensus(detectnames) ==
    IF detectnames = <<>> THEN <<>>
    ELSE LET n(x) == Cardinality({i \in DOMAIN detectnames : detectnames[i] = x})
             best == CHOOSE i \in DOMAIN detectnames :
                        /\ \A j \in DOMAIN detectnames :
                              n(detectnames[j]) <= n(detectnames[i])
                        /\ \A j \in 1..(i-1) :
                              n(detectnames[j]) < n(detectnames[i])
         IN  detectnames[best]

\* str.startswith
StartsWith(s, prefix) ==
    Len(s) >= Len(prefix) /\ SubSeq(s, 1, Len(prefix)) = prefix

\* str.lower()
Lower(s) ==
    [i \in DOMAIN s |->
        IF s[i] \in Range(Uppers) THEN Lowers[IndexIn(Uppers, s[i])] ELSE s[i]]

\* s.split(".")[0]
RECURSIVE SplitDot(_)
SplitDot(s) ==
    IF s = <<>> \/ Head(s) = "." THEN <<>>
    ELSE <<Head(s)>> \o SplitDot(Tail(s))

\* the characters of the class [A-Za-z0-9\.]
WordChars == Range(Lowers) \cup Range(Uppers) \cup Digits \cup {"."}

\* re.findall(r"[A-Za-z0-9\.]+", s), cur being the run read so far
RECURSIVE FindAll(_, _)
FindAll(s, cur) ==
    IF s = <<>> THEN (IF cur = <<>> THEN <<>> ELSE <<cur>>)
    ELSE IF Head(s) \in WordChars THEN FindAll(Tail(s), Append(cur, Head(s)))
    ELSE (IF cur = <<>> THEN <<>> ELSE <<cur>>) \o FindAll(Tail(s), <<>>)

ET_TROJAN == <<"E", "T", " ", "T", "R", "O", "J", "A", "N">>
ETPRO_TROJAN == <<"E", "T", "P", "R", "O", " ", "T", "R", "O", "J", "A", "N">>
win32 == <<"w", "i", "n", "3", "2">>

\* lines 533-554
blacklist ==
    { <<"u", "p", "x">>,
      <<"e", "x", "e", "c", "u", "t", "a", "b", "l", "e">>,
      <<"p", "o", "t", "e", "n", "t", "i", "a", "l">>,
      <<"l", "i", "k", "e", "l", "y">>,
      <<"r", "o", "g", "u", "e">>,
      <<"s", "u", "p", "i", "c", "i", "o", "u", "s">>,
      <<"g", "e", "n", "e", "r", "i", "c">>,
      <<"p", "o", "s", "s", "i", "b", "l", "e">>,
      <<"k", "n", "o", "w", "n">>,
      <<"c", "o", "m", "m", "o", "n">>,
      <<"t", "r", "o", "j">>,
      <<"t", "r", "o", "j", "a", "n">>,
      <<"t", "e", "a", "m">>,
      <<"p", "r", "o", "b", "a", "b", "l", "y">>,
      <<"w", "2", "k", "m">>,
      <<"h", "t", "t", "p">>,
      <<"a", "b", "u", "s", "e", ".", "c", "h">>,
      <<"w", "i", "n", "3", "2">>,
      <<"u", "n", "k", "n", "o", "w", "n">>,
      <<"s", "i", "n", "g", "l", "e">> }

\* lines 524-562 for one alert: the family after the alert, or the
\* IndexError of words[2] / words[3]
AlertFamily(alert, family) ==
    IF alert.signature = <<>>
       \/ ~(StartsWith(alert.signature, ET_TROJAN)
            \/ StartsWith(alert.signature, ETPRO_TROJAN))
    THEN [raised |-> FALSE, family |-> family]
    ELSE LET words == FindAll(alert.signature, <<>>)
         IN  IF Len(words) < 3 THEN [raised |-> TRUE, family |-> family]
             ELSE IF Lower(words[3]) = win32 /\ Len(words) < 4
             THEN [raised |-> TRUE, family |-> family]
             ELSE LET famcheck == IF Lower(words[3]) = win32 THEN words[4]
                                  ELSE words[3]
                  IN  IF Lower(famcheck) \in blacklist
                      THEN [raised |-> FALSE, family |-> family]
                      ELSE [raised |-> FALSE,
                            family |-> Title(SplitDot(famcheck))]

\* lines 523-562: the loop over the alerts
RECURSIVE SuricataFamily(_, _)
SuricataFamily(alerts, family) ==
    IF alerts = <<>> THEN [raised |-> FALSE, family |-> family]
    ELSE LET r == AlertFamily(Head(alerts), family)
         IN  IF r.raised THEN r ELSE SuricataFamily(Tail(alerts), r.family)

Win_Trojan == <<"W", "i", "n", ".", "T", "r", "o", "j", "a", "n", ".">>

\* lines 505-566: the family waterfall over the sorted matches m and the
\* aggregate res; raised stands for the IndexError of the suricata rule
MalFamily(m, res) ==
    LET family1 == FamilyFromMatches(m)
        family2 == IF /\ NotFamily(family1)
                      /\ res.category = "file"
                      /\ res.virustotal.present
                      /\ res.virustotal.results # <<>>
                   THEN get_vt_consensus(DetectNames(res.virustotal.results))
                   ELSE family1
        r3 == IF /\ NotFamily(family2)
                 /\ res.suricata.present
                 /\ res.suricata.alerts # <<>>
              THEN SuricataFamily(res.suricata.alerts, family2)
              ELSE [raised |-> FALSE, family |-> family2]
        family4 == IF /\ NotFamily(r3.family)
                      /\ res.category = "file"
                      /\ res.clamav # <<>>
                      /\ StartsWith(res.clamav, Win_Trojan)
                   THEN Drop(res.clamav, 11)
                   ELSE r3.family
    IN  [raised |-> r3.raised, family |-> family4]

\* lines 489-568: sort the matches, set malscore and malfamily; an
\* IndexError of the suricata rule ends run after malscore is set
Aggregate ==
    /\ pc = "aggregate"
    /\ matched' = SortMatches(matched)
    /\ LET fam == MalFamily(SortMatches(matched), results)
       IN  IF fam.raised
           THEN /\ results' = [results EXCEPT
                      !.keys = @ \cup {"malscore"},
                      !.malscore = Malscore(SortMatches(matched))]
                /\ pc' = "raised"
                /\ ev' = [hook |-> "malfamily", sig |-> "", result |-> "Exception"]
           ELSE /\ results' = [results EXCEPT
                      !.keys = @ \cup {"malscore", "malfamily"},
                      !.malscore = Malscore(SortMatches(matched)),
                      !.malfamily = fam.family]
                /\ pc' = "done"
                /\ ev' = NoEvent
    /\ UNCHANGED <<_modules, classes, overlay_file, evented_list, instances,
                   stats, proc_i, call_i, iter, histvars, cursor, consumed,
                   auxvars, othervars>>

(***************************************************************************)
(* RunAuxiliary: start (lines 87-126) and stop (lines 128-138).            *)
(***************************************************************************)
\* what the stop hook of a module can do: return or raise
AuxStopOutcomes == {"stopped", "NotImplementedError", "Exception"}

\* what start() can meet for a module with configuration cfg: the
\* constructor raises; the module has no section in the configuration; it is
\* disabled; its start hook raises NotImplementedError, raises another
\* exception, or returns
AuxPossible(cfg) ==
    {"ctor_failed"} \cup
    (IF cfg = "missing" THEN {"no_config"}
     ELSE IF cfg = "disabled" THEN {"disabled"}
     ELSE {"not_implemented", "start_failed", "started"})

\* a start() that records every module whose start hook it invoked
AuxRecordedAfterAnyStart(o) == o \in {"started", "start_failed", "not_implemented"}

\* lines 123-126: the else clause of the try records the module
AuxRecorded(o) == o = "started"

\* where start() continues after a module with the given outcome: with the
\* next module of the list, or (return) nowhere
AuxStartContinues(o) == o # "ctor_failed"

\* lines 90-126: one turn of `for module in auxiliary_list`, or the loop's end
AuxStart ==
    /\ aux_pc = "start"
    /\ LET auxiliary_list == list_plugins("auxiliary")
       IN  IF aux_iter <= Len(auxiliary_list)
           THEN LET module == auxiliary_list[aux_iter]
                IN  \E o \in AuxPossible(aux_cfg[module]) :
                    /\ aux_status' = [aux_status EXCEPT ![module] = o]
                    /\ aux_enabled' = IF AuxRecorded(o)
                                      THEN Append(aux_enabled, module)
                                      ELSE aux_enabled
                    /\ IF AuxStartContinues(o)
                       THEN aux_iter' = aux_iter + 1 /\ aux_pc' = aux_pc
                       ELSE aux_iter' = 1 /\ aux_pc' = "stop"
           ELSE /\ aux_pc' = "stop"
                /\ aux_iter' = 1
                /\ UNCHANGED <<aux_status, aux_enabled>>
    /\ UNCHANGED <<aux_cfg, aux_stops, sigvars, othervars>>

\* lines 129-138: one turn of `for module in self.enabled`, or the loop's end
AuxStop ==
    /\ aux_pc = "stop"
    /\ IF aux_iter <= Len(aux_enabled)
       THEN \E o \in AuxStopOutcomes :
            /\ aux_stops' = [aux_stops EXCEPT ![aux_enabled[aux_iter]] = Append(@, o)]
            /\ aux_iter' = aux_iter + 1
            /\ aux_pc' = aux_pc
       ELSE /\ aux_pc' = "done"
            /\ UNCHANGED <<aux_stops, aux_iter>>
    /\ UNCHANGED <<aux_cfg, aux_status, aux_enabled, sigvars, othervars>>

(***************************************************************************)
(* The registry: register_plugin (lines 67-70), list_plugins (lines 72-76) *)
(* and load_plugins (lines 51-65).  _modules is a defaultdict(dict): a     *)
(* read of a missing group stores a new dict under it.                     *)
(***************************************************************************)
\* number of calls made to the registry
MaxRegCalls == 3

\* the capability interfaces, in the order load_plugins tests them, and the
\* group of each
Interfaces == <<"Auxiliary", "Machinery", "Processing", "Report",
                "Signature", "Feed">>
GroupNames == <<"auxiliary", "machinery", "processing", "reporting",
                "signatures", "feeds">>

\* the classes a plugin module can hold, each with the set of the marker
\* types it is a subclass of (a class is a subclass of itself)
LoadedClasses ==
    [Auxiliary |-> {"Auxiliary"},
     Machinery |-> {"Machinery"},
     LibVirtMachinery |-> {"Machinery", "LibVirtMachinery"},
     Processing |-> {"Processing"},
     Report |-> {"Report"},
     Signature |-> {"Signature"},
     Feed |-> {"Feed"},
     Sniffer |-> {"Auxiliary"},
     KVM |-> {"Machinery", "LibVirtMachinery"},
     Static |-> {"Processing"},
     Both |-> {"Processing", "Signature"},
     AuxFeed |-> {"Auxiliary", "Feed"},
     RepSig |-> {"Report", "Signature"},
     Helper |-> {}]

\* inspect.getmembers(module) of the plugin modules: the classes of each
\* module, sorted by name
PluginModules ==
    { <<"Auxiliary", "Sniffer">>,
      <<"KVM", "LibVirtMachinery", "Machinery">>,
      <<"Both", "Processing", "Signature", "Static">>,
      <<"AuxFeed", "Feed", "Helper", "RepSig", "Report">> }

\* issubclass(value, base)
issubclass(value, base) == base \in LoadedClasses[value]

\* an elif chain that tests the interfaces from the last to the first
GroupOfReversed(value) ==
    IF issubclass(value, "Feed") /\ value # "Feed" THEN "feeds"
    ELSE IF issubclass(value, "Signature") /\ value # "Signature" THEN "signatures"
    ELSE IF issubclass(value, "Report") /\ value # "Report" THEN "reporting"
    ELSE IF issubclass(value, "Processing") /\ value # "Processing" THEN "processing"
    ELSE IF issubclass(value, "Machinery") /\ value # "Machinery"
            /\ value # "LibVirtMachinery" THEN "machinery"
    ELSE IF issubclass(value, "Auxiliary") /\ value # "Auxiliary" THEN "auxiliary"
    ELSE "none"

\* lines 54-65: the group a class is registered in, "none" when no branch
\* of the elif chain is taken
GroupOf(value) ==
    IF issubclass(value, "Auxiliary") /\ value # "Auxiliary" THEN "auxiliary"
    ELSE IF issubclass(value, "Machinery") /\ value # "Machinery"
            /\ value # "LibVirtMachinery" THEN "machinery"
    ELSE IF issubclass(value, "Processing") /\ value # "Processing" THEN "processing"
    ELSE IF issubclass(value, "Report") /\ value # "Report" THEN "reporting"
    ELSE IF issubclass(value, "Signature") /\ value # "Signature" THEN "signatures"
    ELSE IF issubclass(value, "Feed") /\ value # "Feed" THEN "feeds"
    ELSE "none"

\* the registry with value v of type t under group
Store(reg, group, v, t) ==
    [modules |-> [g \in DOMAIN reg.modules \cup {group} |->
                     IF g = group THEN v ELSE reg.modules[g]],
     types |-> [g \in DOMAIN reg.types \cup {group} |->
                     IF g = group THEN t ELSE reg.types[g]],
     result |-> "ok"]

\* lines 69-70 on the registry reg (its values, their types, the outcome of
\* the last call): setdefault(group, []) returns the value already stored
\* under group, and append is a method of lists only
register_plugin(reg, group, name) ==
    IF group \notin DOMAIN reg.modules
    THEN Store(reg, group, <<name>>, "list")
    ELSE IF reg.types[group] = "dict"
    THEN [reg EXCEPT !.result = "AttributeError"]
    ELSE Store(reg, group, Append(reg.modules[group], name), "list")

\* lines 52-65: register the classes of a module in turn; an exception of
\* register_plugin ends the loop
RECURSIVE load_plugins(_, _)
load_plugins(reg, members) ==
    IF members = <<>> THEN reg
    ELSE LET value == Head(members)
             next == IF GroupOf(value) = "none" THEN reg
                     ELSE register_plugin(reg, GroupOf(value), value)
         IN  IF next.result # "ok" THEN next ELSE load_plugins(next, Tail(members))

\* the registry as the functions above take it
Registry == [modules |-> _modules, types |-> _modules_type, result |-> "ok"]

\* the groups and names of the direct calls
CallGroups == {"signatures", "processing"}
CallNames == {"SigA", "SigB"}

\* a call of register_plugin(group, name)
RegisterPlugin ==
    /\ reg_calls < MaxRegCalls
    /\ \E group \in CallGroups, name \in CallNames :
        LET after == register_plugin(Registry, group, name)
        IN  /\ _modules' = after.modules
            /\ _modules_type' = after.types
            /\ reg_ev' = [op |-> "register_plugin", group |-> group,
                          name |-> name, module |-> <<>>,
                          result |-> after.result, before |-> _modules]
    /\ reg_calls' = reg_calls + 1
    /\ UNCHANGED <<classes, overlay_file, results, pc, evented_list, instances,
                   matched, stats, proc_i, call_i, iter, histvars, ev, cursor,
                   consumed, auxvars, chk, plvars>>

\* a call of list_plugins(group); group = "" stands for list_plugins()
ListPlugins ==
    /\ reg_calls < MaxRegCalls
    /\ \E group \in CallGroups \cup {""} :
        /\ IF group # "" /\ group \notin DOMAIN _modules
           THEN LET after == Store(Registry, group, <<>>, "dict")
                IN  /\ _modules' = after.modules
                    /\ _modules_type' = after.types
           ELSE UNCHANGED <<_modules, _modules_type>>
        /\ reg_ev' = [op |-> "list_plugins", group |-> group, name |-> "",
                      module |-> <<>>,
                      result |-> IF group = "" THEN "registry"
                                 ELSE IF group \notin DOMAIN _modules THEN "empty"
                                 ELSE IF _modules[group] = <<>> THEN "empty"
                                 ELSE "members",
                      before |-> _modules]
    /\ reg_calls' = reg_calls + 1
    /\ UNCHANGED <<classes, overlay_file, results, pc, evented_list, instances,
                   matched, stats, proc_i, call_i, iter, histvars, ev, cursor,
                   consumed, auxvars, chk, plvars>>

\* a call of load_plugins(module)
LoadPlugins ==
    /\ reg_calls < MaxRegCalls
    /\ \E members \in PluginModules :
        LET after == load_plugins(Registry, members)
        IN  /\ _modules' = after.modules
            /\ _modules_type' = after.types
            /\ reg_ev' = [op |-> "load_plugins", group |-> "", name |-> "",
                          module |-> members,
                          result |-> after.result, before |-> _modules]
    /\ reg_calls' = reg_calls + 1
    /\ UNCHANGED <<classes, overlay_file, results, pc, evented_list, instances,
                   matched, stats, proc_i, call_i, iter, histvars, ev, cursor,
                   consumed, auxvars, chk, plvars>>

(***************************************************************************)
(* _check_signature_version (lines 275-319) as a call of its own.          *)
(***************************************************************************)
\* the values a signature can declare as minimum or maximum
Versions ==
    { NoVersion,
      <<"1", ".", "4">>,
      <<"1", ".", "5">>,
      <<"1", ".", "6">>,
      <<"0", ".", "9">>,
      <<"2", ".", "0">>,
      <<"1", ".", "1", "0">>,
      <<"1", ".", "5", ".", "0">>,
      <<"1", ".", "5", ".", "1">>,
      <<"1", ".", "4", ".", "9">>,
      <<"1", ".", "5", "a", "1">>,
      <<"1", ".", "5", "b", "2">>,
      <<"1", ".", "6", "a", "1">>,
      <<"1", ".", "5", "-", "r", "c", "1">>,
      <<"1", ".", "6", "-", "d", "e", "v">>,
      <<"1", ".", "4", "-", "x">>,
      <<"x", ".", "y">>,
      <<"1">>,
      <<"1", ".", "5", ".">>,
      <<"-", "1", ".", "5">>,
      <<"1", ".", "5", " ">> }

\* a call of _check_signature_version on a signature declaring chk.minimum
\* and chk.maximum
CheckSignatureVersion ==
    /\ chk.result = "none"
    /\ chk' = [chk EXCEPT !.result =
                  IF _check_signature_version(chk.minimum, chk.maximum)
                  THEN "True" ELSE "None"]
    /\ UNCHANGED <<sigvars, auxvars, regvars, plvars>>

(***************************************************************************)
(* RunProcessing (lines 140-244) and RunReporting (lines 570-663).         *)
(***************************************************************************)
\* number of classes registered in the "processing" / "reporting" group
NumMods == 3

\* the module classes of a stage: the declared order of each and, for a
\* processing module, the key its data is stored under
ModClasses ==
    [ModA |-> [order |-> 2, key |-> "k1"],
     ModB |-> [order |-> 1, key |-> "k1"],
     ModC |-> [order |-> 2, key |-> "k2"],
     ModD |-> [order |-> 1, key |-> "k2"],
     ModE |-> [order |-> 3, key |-> "k1"]]

ModIds == DOMAIN ModClasses

\* the orders in which the stage's modules can be loaded
ModLoadOrders ==
    { <<"ModA", "ModB", "ModC", "ModD", "ModE">>,
      <<"ModE", "ModD", "ModC", "ModB", "ModA">>,
      <<"ModC", "ModE", "ModA", "ModD", "ModB">> }

\* the lists register_plugin can have built for the stage's group
ModRegistrations(n) ==
    { SelectSeq(order, LAMBDA c : c \in chosen) :
        order \in ModLoadOrders,
        chosen \in {S \in SUBSET ModIds : Cardinality(S) = n} }

ModConfigs == {"missing", "disabled", "enabled"}

\* what process(module) can meet for a module with configuration cfg: the
\* constructor raises; the module has no section in the configuration; it
\* is disabled; its run raises CuckooDependencyError, the stage's declared
\* error (CuckooProcessingError / CuckooReportError) or another exception,
\* or returns
ModPossible(cfg) ==
    {"ctor_failed"} \cup
    (IF cfg = "missing" THEN {"no_config"}
     ELSE IF cfg = "disabled" THEN {"disabled"}
     ELSE {"dependency", "declared_error", "exception", "ok"})

\* a process() that records a statistics entry for every run it started
ModRecordedAfterAnyRun(o) ==
    o \in {"dependency", "declared_error", "exception", "ok"}

\* lines 197-208 and 628-635: the statistics entry is appended, and the
\* module's data returned, once run has returned
ModRecorded(o) == o = "ok"

\* a stage that runs its modules in the order of the registry's list
RegistrationOrder(list) == list

\* lines 232 and 657: list.sort(key=lambda module: module.order)
SortedByOrder(list) == SortByKey(list, [m \in ModIds |-> ModClasses[m].order])

\* dict.update({key: module's data})
Update(res, key, module) ==
    [k \in DOMAIN res \cup {key} |-> IF k = key THEN module ELSE res[k]]

\* lines 228-232: RunProcessing.run sorts the registry's list in place
ProcessingRun ==
    /\ pl_stage = "processing"
    /\ pl_pc = "start"
    /\ LET processing_list == list_plugins("processing")
       IN  IF processing_list # <<>>
           THEN /\ _modules' = [_modules EXCEPT
                                   !["processing"] = SortedByOrder(processing_list)]
                /\ pl_pc' = "loop"
           ELSE /\ pl_pc' = "done"
                /\ UNCHANGED _modules
    /\ pl_iter' = 1
    /\ UNCHANGED <<classes, overlay_file, results, pc, evented_list, instances,
                   matched, stats, proc_i, call_i, iter, histvars, ev, cursor,
                   consumed, auxvars, regvars, chk, pl_stage, pl_cfg, pl_status,
                   pl_stats, pl_results, pl_trace>>

\* lines 235-240 with process (lines 155-218): one turn of
\* `for module in processing_list`, or the loop's end
ProcessingStep ==
    /\ pl_stage = "processing"
    /\ pl_pc = "loop"
    /\ LET processing_list == list_plugins("processing")
       IN  IF pl_iter <= Len(processing_list)
           THEN LET module == processing_list[pl_iter]
                IN  \E o \in ModPossible(pl_cfg[module]) :
                    /\ pl_status' = [pl_status EXCEPT ![module] = o]
                    /\ pl_trace' = Append(pl_trace, module)
                    /\ pl_stats' = IF ModRecorded(o) THEN Append(pl_stats, module)
                                   ELSE pl_stats
                    /\ pl_results' = IF ModRecorded(o)
                                     THEN Update(pl_results, ModClasses[module].key, module)
                                     ELSE pl_results
                    /\ pl_iter' = pl_iter + 1
                    /\ pl_pc' = pl_pc
           ELSE /\ pl_pc' = "done"
                /\ UNCHANGED <<pl_status, pl_trace, pl_stats, pl_results, pl_iter>>
    /\ UNCHANGED <<sigvars, auxvars, regvars, chk, pl_stage, pl_cfg>>

\* lines 653-657: RunReporting.run sorts the registry's list in place
ReportingRun ==
    /\ pl_stage = "reporting"
    /\ pl_pc = "start"
    /\ LET reporting_list == list_plugins("reporting")
       IN  IF reporting_list # <<>>
           THEN /\ _modules' = [_modules EXCEPT
                                   !["reporting"] = SortedByOrder(reporting_list)]
                /\ pl_pc' = "loop"
           ELSE /\ pl_pc' = "done"
                /\ UNCHANGED _modules
    /\ pl_iter' = 1
    /\ UNCHANGED <<classes, overlay_file, results, pc, evented_list, instances,
                   matched, stats, proc_i, call_i, iter, histvars, ev, cursor,
                   consumed, auxvars, regvars, chk, pl_stage, pl_cfg, pl_status,
                   pl_stats, pl_results, pl_trace>>

\* lines 660-661 with process (lines 589-642): one turn of
\* `for module in reporting_list`, or the loop's end; a report adds no key
\* to the results
ReportingStep ==
    /\ pl_stage = "reporting"
    /\ pl_pc = "loop"
    /\ LET reporting_list == list_plugins("reporting")
       IN  IF pl_iter <= Len(reporting_list)
           THEN LET module == reporting_list[pl_iter]
                IN  \E o \in ModPossible(pl_cfg[module]) :
                    /\ pl_status' = [pl_status EXCEPT ![module] = o]
                    /\ pl_trace' = Append(pl_trace, module)
                    /\ pl_stats' = IF ModRecorded(o) THEN Append(pl_stats, module)
                                   ELSE pl_stats
                    /\ pl_iter' = pl_iter + 1
                    /\ pl_pc' = pl_pc
           ELSE /\ pl_pc' = "done"
                /\ UNCHANGED <<pl_status, pl_trace, pl_stats, pl_iter>>
    /\ UNCHANGED <<sigvars, auxvars, regvars, chk, pl_stage, pl_cfg, pl_results>>

(***************************************************************************)
(* Specifications.                                                         *)
(***************************************************************************)
AuxIds == 1..NumAux
AuxConfigs == {"missing", "disabled", "enabled"}

NoOverlayFile == [exists |-> FALSE, data |-> EmptyOverlay]
NoAuxConfig == [m \in AuxIds |-> "missing"]

\* an aggregate without reputation, intrusion-alert or scanner results
NoVirusTotal == [present |-> FALSE, results |-> <<>>]
NoSuricata == [present |-> FALSE, alerts |-> <<>>]
NoClamav == <<>>

\* the result aggregate handed to the engines of a task on a file
InitialResults(behavior) ==
    [behavior |-> behavior, category |-> "file", keys |-> {},
     signatures |-> NoSignatures,
     statistics |-> [n \in {} |-> 0],
     malscore |-> 0, malfamily |-> <<>>,
     virustotal |-> NoVirusTotal, suricata |-> NoSuricata, clamav |-> NoClamav]

\* RunSignatures at statement at of run, with the match list m and the
\* aggregate res
InitSigVars(registry, file, res, m, at) ==
    /\ _modules = registry
    /\ modules0 = registry
    /\ classes = SigClasses
    /\ overlay_file = file
    /\ results = res
    /\ pc = at
    /\ evented_list = <<>>
    /\ instances = [c \in SigIds |-> [a \in {} |-> 0]]
    /\ matched = m
    /\ stats = [n \in {} |-> FALSE]
    /\ proc_i = 1
    /\ call_i = 1
    /\ iter = 1
    /\ active0 = <<>>
    /\ visited = <<>>
    /\ outcome = [c \in SigIds |-> "none"]
    /\ n_complete = [c \in SigIds |-> 0]
    /\ n_run = [c \in SigIds |-> 0]
    /\ ev = NoEvent
    /\ partition0 = {}
    /\ cursor = InitialCursor
    /\ consumed = {}

\* RunAuxiliary.__init__ (lines 81-85) with the configuration cfg
InitAuxVars(cfg) ==
    /\ aux_cfg = cfg
    /\ aux_pc = "start"
    /\ aux_enabled = <<>>
    /\ aux_iter = 1
    /\ aux_status = [m \in AuxIds |-> "unvisited"]
    /\ aux_stops = [m \in AuxIds |-> <<>>]

\* the types of the values of a registry: a list is made by register_plugin
\* and is never empty, an empty value is the dict made by the defaultdict
TypesOf(registry) ==
    [g \in DOMAIN registry |-> IF registry[g] = <<>> THEN "dict" ELSE "list"]

NoCall == [op |-> "none", group |-> "", name |-> "", module |-> <<>>,
           result |-> "none", before |-> <<>>]

\* no call has been made to the registry since it was built
InitRegVars(registry) ==
    /\ _modules_type = TypesOf(registry)
    /\ reg_ev = NoCall
    /\ reg_calls = 0

NoCheck == [minimum |-> NoVersion, maximum |-> NoVersion, result |-> "none"]

\* RunProcessing / RunReporting have not been constructed
InitPlIdle ==
    /\ pl_stage = "none"
    /\ pl_pc = "idle"
    /\ pl_iter = 1
    /\ pl_cfg = [m \in ModIds |-> "missing"]
    /\ pl_status = [m \in ModIds |-> "unvisited"]
    /\ pl_stats = <<>>
    /\ pl_results = [k \in {} |-> ""]
    /\ pl_trace = <<>>

\* the state of the engines before they run, for a given registry
InitWith(registry, file, behavior, cfg) ==
    /\ InitSigVars(registry, file, InitialResults(behavior), <<>>, "start")
    /\ InitAuxVars(cfg)
    /\ InitRegVars(registry)
    /\ chk = NoCheck
    /\ InitPlIdle

\* one task of the signature engine: NumSigs of the classes are registered
\* in some order, the overlay file is missing or holds one of Overlays, the
\* aggregate may hold behaviour telemetry
InitSig ==
    \E reg \in Registrations(NumSigs), file \in OverlayFiles,
       behavior \in BOOLEAN :
        InitWith([signatures |-> reg, auxiliary |-> <<>>], file, behavior,
                 NoAuxConfig)

NextSig ==
    \/ Partition
    \/ ApplyOverlay
    \/ EventedBegin
    \/ EventedStep
    \/ NextCall
    \/ OnComplete
    \/ LinkResults
    \/ BatchBegin
    \/ BatchStep
    \/ Aggregate

SpecSig == InitSig /\ [][NextSig]_vars

\* one analysis of the auxiliary controller: start() then stop()
InitAux ==
    \E cfg \in [AuxIds -> AuxConfigs] :
        InitWith([signatures |-> <<>>, auxiliary |-> [i \in AuxIds |-> i]],
                 [exists |-> FALSE, data |-> EmptyOverlay], FALSE, cfg)

NextAux == AuxStart \/ AuxStop

SpecAux == InitAux /\ [][NextAux]_vars

\* the sequences of at most n elements of S
SeqsUpTo(S, n) == UNION {[1..k -> S] : k \in 0..n}

\* number of Match Records the passes have produced
MaxMatches == 2

\* Match Records signatures can produce
MatchRecords ==
    { [sig |-> "SigA", name |-> "SigA", severity |-> 1, confidence |-> 100,
       weight |-> 2, families |-> <<>>],
      [sig |-> "SigB", name |-> "SigB", severity |-> 3, confidence |-> 50,
       weight |-> 2, families |-> <<>>],
      [sig |-> "SigC", name |-> "SigC", severity |-> 3, confidence |-> 100,
       weight |-> 6, families |-> << <<"z", "e", "u", "S">>, <<"z", "b", "o", "t">> >>],
      [sig |-> "SigD", name |-> "SigD", severity |-> 1, confidence |-> 100,
       weight |-> -2, families |-> << <<"p", "o", "n", "y", "-", "l", "o", "a", "d", "e", "r">> >>],
      [sig |-> "SigE", name |-> "SigE", severity |-> 2, confidence |-> 50,
       weight |-> 3, families |-> <<>>],
      [sig |-> "SigA", name |-> "SigA", severity |-> 0, confidence |-> 100,
       weight |-> 1, families |-> << <<>> >>] }

\* results["virustotal"], results["suricata"] and the clamav name of
\* results["target"]["file"] an analysis can have produced
VirusTotals ==
    { NoVirusTotal,
      [present |-> TRUE,
       results |-> << [vendor |-> "Kaspersky", sig |-> <<"Z", "b", "o", "t">>],
                      [vendor |-> "Microsoft", sig |-> <<"R", "a", "m", "n", "i", "t">>],
                      [vendor |-> "Avast", sig |-> <<>>],
                      [vendor |-> "Sophos", sig |-> <<"Z", "b", "o", "t">>] >>],
      [present |-> TRUE,
       results |-> << [vendor |-> "Avast", sig |-> <<>>] >>] }

Suricatas ==
    { NoSuricata,
      [present |-> TRUE,
       alerts |-> << [signature |-> <<"E", "T", " ", "T", "R", "O", "J", "A", "N", " ", "W", "i", "n", "3", "2", " ", "s", "a", "l", "i", "t", "y", ".", "A", " ", "C", "h", "e", "c", "k", "i", "n">>] >>],
      [present |-> TRUE,
       alerts |-> << [signature |-> <<"E", "T", " ", "P", "O", "L", "I", "C", "Y", " ", "D", "r", "i", "d", "e", "x">>],
                     [signature |-> <<>>],
                     [signature |-> <<"E", "T", "P", "R", "O", " ", "T", "R", "O", "J", "A", "N", " ", "G", "e", "n", "e", "r", "i", "c", " ", "B", "o", "t">>] >>],
      [present |-> TRUE,
       alerts |-> << [signature |-> <<"E", "T", " ", "T", "R", "O", "J", "A", "N", " ", "T", "i", "n", "b", "a", " ", "C", "h", "e", "c", "k", "i", "n">>],
                     [signature |-> <<"E", "T", " ", "T", "R", "O", "J", "A", "N", " ", "W", "i", "n", "3", "2">>] >>] }

Clamavs == { NoClamav, <<"W", "i", "n", ".", "T", "r", "o", "j", "a", "n", ".", "A", "g", "e", "n", "t", "-", "1">>, <<"W", "i", "n", ".", "A", "d", "w", "a", "r", "e", ".", "X">> }

\* the aggregation of run (lines 489-568) on a match list and an aggregate
InitAggregate ==
    \E m \in SeqsUpTo(MatchRecords, MaxMatches), category \in {"file", "url"},
       vt \in VirusTotals, su \in Suricatas, cl \in Clamavs :
        /\ InitSigVars([signatures |-> <<>>, auxiliary |-> <<>>], NoOverlayFile,
                       [InitialResults(TRUE) EXCEPT
                           !.category = category, !.virustotal = vt,
                           !.suricata = su, !.clamav = cl,
                           !.keys = {"signatures"},
                           !.signatures = Link(m)],
                       m, "aggregate")
        /\ InitAuxVars(NoAuxConfig)
        /\ InitRegVars([signatures |-> <<>>, auxiliary |-> <<>>])
        /\ chk = NoCheck
        /\ InitPlIdle

NextAggregate == Aggregate

SpecAggregate == InitAggregate /\ [][NextAggregate]_vars

\* one call of _check_signature_version on a signature's declared bounds
InitCheck ==
    \E minimum \in Versions, maximum \in Versions :
        /\ InitSigVars([signatures |-> <<>>, auxiliary |-> <<>>], NoOverlayFile,
                       InitialResults(FALSE), <<>>, "start")
        /\ InitAuxVars(NoAuxConfig)
        /\ InitRegVars([signatures |-> <<>>, auxiliary |-> <<>>])
        /\ chk = [minimum |-> minimum, maximum |-> maximum, result |-> "none"]
        /\ InitPlIdle

NextCheck == CheckSignatureVersion

SpecCheck == InitCheck /\ [][NextCheck]_vars

\* the registry as the module's import leaves it (line 32): no group
EmptyRegistry == [g \in {} |-> <<>>]

InitReg ==
    /\ InitSigVars(EmptyRegistry, NoOverlayFile, InitialResults(FALSE), <<>>,
                   "start")
    /\ InitAuxVars(NoAuxConfig)
    /\ InitRegVars(EmptyRegistry)
    /\ chk = NoCheck
    /\ InitPlIdle

NextReg == RegisterPlugin \/ ListPlugins \/ LoadPlugins

SpecReg == InitReg /\ [][NextReg]_vars

\* one run of RunProcessing or of RunReporting: NumMods of the classes are
\* registered in the stage's group in some order (or none is), each with
\* its section of the stage's configuration
InitPipeline ==
    \E stage \in {"processing", "reporting"},
       reg \in ModRegistrations(NumMods) \cup {<<>>} :
    \E cfg \in [Range(reg) -> ModConfigs] :
        /\ InitSigVars([g \in {stage} |-> reg], NoOverlayFile,
                       InitialResults(TRUE), <<>>, "start")
        /\ InitAuxVars(NoAuxConfig)
        /\ InitRegVars([g \in {stage} |-> reg])
        /\ chk = NoCheck
        /\ pl_stage = stage
        /\ pl_pc = "start"
        /\ pl_iter = 1
        /\ pl_cfg = [m \in ModIds |-> IF m \in Range(reg) THEN cfg[m] ELSE "missing"]
        /\ pl_status = [m \in ModIds |-> "unvisited"]
        /\ pl_stats = <<>>
        /\ pl_results = [k \in {} |-> ""]
        /\ pl_trace = <<>>

NextPipeline == ProcessingRun \/ ProcessingStep \/ ReportingRun \/ ReportingStep

SpecPipeline == InitPipeline /\ [][NextPipeline]_vars

Init == InitSig \/ InitAux \/ InitAggregate \/ InitCheck \/ InitReg \/ InitPipeline
Next == NextSig \/ NextAux \/ NextAggregate \/ NextCheck \/ NextReg \/ NextPipeline
Spec == Init /\ [][Next]_vars

(***************************************************************************)
(* Properties.                                                             *)
(***************************************************************************)
Count(seq, x) == Cardinality({i \in DOMAIN seq : seq[i] = x})

\* the evented pass is over (or was not run)
AfterEventedPass == pc \in {"link", "batch_begin", "batch", "aggregate", "done"}

\* the overlay has been applied
AfterOverlay == pc \notin {"start", "raised", "overlay"}

\* the position of x in the sequence s of distinct elements
Position(s, x) == CHOOSE i \in DOMAIN s : s[i] = x

\* C1: when the loop over the evented signatures has ended for a call, every
\* signature that was unresolved when the call was reached and whose filters
\* accept the call has had exactly one on_call for it, and the on_call
\* invocations for the call were made in registration order
C1_EveryActiveSignatureSeesTheCall ==
    /\ (pc = "calls" /\ iter > Len(evented_list)) =>
          \A s \in Range(active0) :
              CallAccepted(s, CurrentProc, CurrentCall) => Count(visited, s) = 1
    /\ pc = "calls" =>
          \A i, j \in DOMAIN visited :
              i < j => Position(active0, visited[i]) < Position(active0, visited[j])

\* C2: a signature whose evented instance resolved in on_call does not have
\* its run hook invoked in the batch pass
C2_ResolvedNotRunInBatch ==
    \A c \in SigIds : outcome[c] # "none" => n_run[c] = 0

\* C3: a step that invokes on_call or on_complete invokes it on an instance
\* that has not resolved in an earlier on_call
C3_NoHookAfterResolution ==
    [][ev'.hook \in {"on_call", "on_complete"} => outcome[ev'.sig] = "none"]_vars

C3_Witness ==
    /\ pc = "link"
    /\ \E s, t \in SigIds :
        /\ outcome[s] \in {"matched", "notmatched"}
        /\ n_complete[t] = 1

\* C4: after an evented pass that ran, exactly the instances left unresolved
\* by the trace have had one on_complete each; an on_complete that returned
\* True has appended that instance's one Match Record, and any other outcome
\* has left the instance without a Match Record
C4_OneCompletionForUnresolved ==
    /\ (AfterEventedPass /\ results.behavior) =>
          \A c \in SigIds :
              n_complete[c] = IF c \in Range(evented_list) THEN 1 ELSE 0
    /\ ev.hook = "on_complete" =>
          IF ev.result = "True"
          THEN /\ matched # <<>>
               /\ matched[Len(matched)] = as_result(ev.sig)
               /\ Cardinality({i \in DOMAIN matched : matched[i].sig = ev.sig}) = 1
          ELSE \A i \in DOMAIN matched : matched[i].sig # ev.sig

C4_Witness ==
    /\ pc = "complete"
    /\ \E s, t, u \in SigIds :
        /\ ev = [hook |-> "on_complete", sig |-> s, result |-> "True"]
        /\ n_complete[s] = 1
        /\ n_complete[t] = 1 /\ \A i \in DOMAIN matched : matched[i].sig # t
        /\ outcome[u] # "none" /\ n_complete[u] = 0

\* C5: when stop() has returned, a module has had exactly one stop invocation
\* if its start hook returned, and none otherwise; stop() went through
\* exactly the modules start() recorded
C5_StopExactlyTheStarted ==
    /\ aux_pc = "done" =>
          \A m \in AuxIds :
              Len(aux_stops[m]) = IF aux_status[m] = "started" THEN 1 ELSE 0
    /\ aux_pc \in {"stop", "done"} =>
          Range(aux_enabled) = {m \in AuxIds : aux_status[m] = "started"}
    /\ \A m \in AuxIds : Len(aux_stops[m]) <= 1

C5_Witness ==
    /\ aux_pc = "done"
    /\ \E m, n, k \in AuxIds :
        /\ aux_stops[m] = <<"Exception">>
        /\ m < n /\ aux_stops[n] = <<"stopped">>
        /\ aux_status[k] = "start_failed" /\ aux_stops[k] = <<>>

\* C6: when start() has returned, every enabled module has been instantiated
\* and, unless its own constructor raised, has had its start hook invoked
C6_StartIsolatesFailures ==
    aux_pc \in {"stop", "done"} =>
        \A m \in AuxIds :
            aux_cfg[m] = "enabled" =>
                aux_status[m] \in {"ctor_failed", "not_implemented",
                                   "start_failed", "started"}

\* C7: before a run and after it, every group of the registry holds the
\* members it held at the start, in the same sequence
C7_RegistryUnchanged ==
    pc \in {"start", "done"} =>
        \A group \in DOMAIN modules0 : list_plugins(group) = modules0[group]

\* C8: run never ends by raising, and when it ends the results hold
\* signatures, malscore and malfamily
C8_NoFatalOutcome ==
    /\ pc # "raised"
    /\ pc = "done" => {"signatures", "malscore", "malfamily"} \subseteq results.keys

\* C9: the signatures run built evented instances for are the registered
\* signatures that are evented candidates by their attributes after the overlay
C9_PartitionUsesOverlay ==
    AfterOverlay =>
        partition0 = {c \in Range(modules0["signatures"]) : IsEventedCandidate(c)}

\* the value the overlay gives attribute a of the signatures named name
Overridden(name) == IF name \in DOMAIN _load_overlay THEN _load_overlay[name]
                    ELSE [a \in {} |-> 0]

\* C10: once the overlay is applied, which is before any hook is invoked,
\* every evented instance and every registered class (whose attributes a
\* fresh batch instance reads) has the overlay's value for each overridden
\* attribute, and every Match Record carries the overridden severity
C10_OverlayValuesAreRead ==
    /\ ev.hook \in {"on_call", "on_complete", "run"} => AfterOverlay
    /\ AfterOverlay =>
          /\ \A s \in Range(evented_list) :
                \A a \in DOMAIN Overridden(classes[s].name) :
                    GetAttr(s, a) = Overridden(classes[s].name)[a]
          /\ \A c \in Range(complete_list) :
                \A a \in DOMAIN Overridden(classes[c].name) :
                    classes[c][a] = Overridden(classes[c].name)[a]
    /\ \A i \in DOMAIN matched :
          "severity" \in DOMAIN Overridden(matched[i].name) =>
              matched[i].severity = Overridden(matched[i].name).severity

C10_Witness ==
    /\ pc = "done"
    /\ \E i, j \in DOMAIN matched :
        /\ i # j
        /\ matched[i].name = "SigA" /\ matched[i].severity = 9
        /\ matched[j].name = "SigA" /\ matched[j].severity = 9
        /\ outcome["SigA"] = "matched" /\ n_run["SigA"] = 1

\* weight x 0.5 x confidence/100 for severity 1 and weight x (severity - 1)
\* x confidence/100 otherwise, summed over the records, in units of 1/200
RECURSIVE ExpectedTotal(_)
ExpectedTotal(m) ==
    IF m = <<>> THEN 0
    ELSE (IF Head(m).severity = 1
          THEN Head(m).weight * Head(m).confidence
          ELSE Head(m).weight * (Head(m).severity - 1) * Head(m).confidence * 2)
         + ExpectedTotal(Tail(m))

\* C11: when run has ended, results.malscore is the sum of the contributions
\* of the Match Records clamped to [0, 10] (0..2000 in units of 1/200); a
\* single match of severity 1, weight 2, confidence 100 gives 1.0 and one of
\* severity 3, weight 2, confidence 50 gives 2.0
C11_MalscoreIsTheClampedSum ==
    pc = "done" =>
        /\ results.malscore >= 0
        /\ results.malscore <= 2000
        /\ results.malscore =
              IF ExpectedTotal(matched) > 2000 THEN 2000
              ELSE IF ExpectedTotal(matched) < 0 THEN 0
              ELSE ExpectedTotal(matched)
        /\ (/\ Len(matched) = 1
            /\ matched[1].severity = 1
            /\ matched[1].weight = 2
            /\ matched[1].confidence = 100) => results.malscore = 200
        /\ (/\ Len(matched) = 1
            /\ matched[1].severity = 3
            /\ matched[1].weight = 2
            /\ matched[1].confidence = 50) => results.malscore = 400

C11_Witness ==
    /\ pc = "done"
    /\ Len(matched) = 2
    /\ matched[1].weight < 0
    /\ ExpectedTotal(matched) > 2000
    /\ results.malscore = 2000

\* the name each rule of the waterfall yields on its own (no name: <<>>)
\* rule 1: the first family, title-cased, of the Match Record of least
\* severity (the earliest of them) among those with a family list
MatchFamilyName ==
    LET withFamilies == {i \in DOMAIN matched : matched[i].families # <<>>}
    IN  IF withFamilies = {} THEN <<>>
        ELSE LET first == CHOOSE i \in withFamilies :
                             \A j \in withFamilies :
                                \/ matched[i].severity < matched[j].severity
                                \/ /\ matched[i].severity = matched[j].severity
                                   /\ i <= j
             IN  Title(matched[first].families[1])

\* rule 2: the consensus of the detection names, for a file target
ReputationName ==
    IF results.category = "file" /\ results.virustotal.present
    THEN get_vt_consensus(DetectNames(results.virustotal.results))
    ELSE <<>>

\* rule 3: the name found in the intrusion alerts
AlertName ==
    IF results.suricata.present
    THEN SuricataFamily(results.suricata.alerts, <<>>).family
    ELSE <<>>

\* rule 4: the scanner's name without its "Win.Trojan." prefix, for a file
\* target
ScannerName ==
    IF results.category = "file" /\ StartsWith(results.clamav, Win_Trojan)
    THEN Drop(results.clamav, 11)
    ELSE <<>>

\* C12: when run has ended, malfamily is the name of the first rule, in the
\* order match families, reputation consensus, intrusion alerts, scanner
\* prefix, that yields a non-empty name, and is empty when none does
C12_FamilyWaterfall ==
    pc = "done" =>
        results.malfamily =
            IF MatchFamilyName # <<>> THEN MatchFamilyName
            ELSE IF ReputationName # <<>> THEN ReputationName
            ELSE IF AlertName # <<>> THEN AlertName
            ELSE ScannerName

C12_Witness ==
    /\ pc = "done"
    /\ MatchFamilyName # <<>>
    /\ ReputationName # <<>>
    /\ AlertName # <<>>
    /\ ScannerName # <<>>
    /\ Cardinality({MatchFamilyName, ReputationName, AlertName, ScannerName}) = 4
    /\ results.malfamily = MatchFamilyName

\* the running version without its pre-release suffix
RunningVersion == StrictVersion(SplitDash(CUCKOO_VERSION))

\* a declared bound that is not a version number
Unparsable(bound) == ~StrictVersion(SplitDash(bound)).ok

\* the running version is strictly below / strictly above a parsable bound
RunningBelow(bound) == VersionCmp(RunningVersion, StrictVersion(SplitDash(bound))) < 0
RunningAbove(bound) == VersionCmp(RunningVersion, StrictVersion(SplitDash(bound))) > 0

\* bounds the running version 1.5 is inside of, and bounds it is outside of
\* or that are not version numbers
PassingBounds ==
    { <<NoVersion, NoVersion>>,
      <<<<"1", ".", "5">>, <<"1", ".", "5">>>>,
      <<<<"1", ".", "4">>, <<"1", ".", "6">>>>,
      <<<<"1", ".", "4", ".", "9">>, <<"1", ".", "5", ".", "1">>>>,
      <<NoVersion, <<"1", ".", "1", "0">>>>,
      <<<<"0", ".", "9">>, NoVersion>>,
      <<<<"1", ".", "5", ".", "0">>, <<"2", ".", "0">>>>,
      <<<<"1", ".", "5", "-", "r", "c", "1">>, <<"1", ".", "6", "-", "d", "e", "v">>>>,
      <<<<"1", ".", "4", "-", "x">>, <<"1", ".", "5", ".", "0">>>> }
SkippedBounds ==
    { <<<<"1", ".", "6">>, NoVersion>>,
      <<NoVersion, <<"1", ".", "4">>>>,
      <<<<"1", ".", "1", "0">>, NoVersion>>,
      <<NoVersion, <<"0", ".", "9">>>>,
      <<<<"1", ".", "5", ".", "1">>, NoVersion>>,
      <<NoVersion, <<"1", ".", "4", ".", "9">>>>,
      <<<<"x", ".", "y">>, NoVersion>>,
      <<NoVersion, <<"x", ".", "y">>>>,
      <<<<"1", ".", "4">>, <<"1", ".", "5", ".">>>>,
      <<<<"1">>, NoVersion>>,
      <<<<"1", ".", "6", "-", "d", "e", "v">>, <<"2", ".", "0">>>>,
      <<<<"1", ".", "4">>, <<"1", ".", "4", "-", "x">>>>,
      <<<<"-", "1", ".", "5">>, NoVersion>> }

\* C13: the check returns None (the signature is skipped) exactly when a
\* declared bound is not a version number, or the running version without
\* its suffix is strictly below the declared minimum or strictly above the
\* declared maximum; without bounds, or inside [minimum, maximum], it
\* returns True
C13_VersionGate ==
    chk.result # "none" =>
        /\ chk.result \in {"True", "None"}
        /\ chk.result = "None" <=>
              \/ /\ chk.minimum # NoVersion
                 /\ Unparsable(chk.minimum) \/ RunningBelow(chk.minimum)
              \/ /\ chk.maximum # NoVersion
                 /\ Unparsable(chk.maximum) \/ RunningAbove(chk.maximum)
        /\ <<chk.minimum, chk.maximum>> \in PassingBounds => chk.result = "True"
        /\ <<chk.minimum, chk.maximum>> \in SkippedBounds => chk.result = "None"

C13_Witness ==
    /\ chk.result = "True"
    /\ chk.minimum = <<"1", ".", "5">>
    /\ chk.maximum = <<"1", ".", "5">>

\* module a comes before module b in ascending declared order, a tie being
\* decided by the order of registration
RunsBefore(a, b, registered) ==
    \/ ModClasses[a].order < ModClasses[b].order
    \/ /\ ModClasses[a].order = ModClasses[b].order
       /\ Position(registered, a) < Position(registered, b)

ModFailed(o) == o \in {"ctor_failed", "dependency", "declared_error", "exception"}

GroupList(reg, group) == IF group \in DOMAIN reg THEN reg[group] ELSE <<>>

\* sequence s is a prefix of sequence t
IsPrefix(s, t) == Len(s) <= Len(t) /\ SubSeq(t, 1, Len(s)) = s

\* C16: after any sequence of calls, a list_plugins of a group without
\* members has returned an empty collection, a register_plugin has succeeded
\* and its descriptor is the last member of its group, after the members
\* the group had, and the call has removed no member of any group
C16_RegistrationAlwaysAppends ==
    /\ (reg_ev.op = "list_plugins" /\ reg_ev.group # ""
          /\ GroupList(reg_ev.before, reg_ev.group) = <<>>) =>
          reg_ev.result = "empty"
    /\ reg_ev.op = "register_plugin" =>
          /\ reg_ev.result = "ok"
          /\ GroupList(_modules, reg_ev.group)
                = Append(GroupList(reg_ev.before, reg_ev.group), reg_ev.name)
    /\ \A g \in DOMAIN reg_ev.before :
          IsPrefix(reg_ev.before[g], GroupList(_modules, g))

\* the base and marker types
MarkerTypes == {"Auxiliary", "Machinery", "LibVirtMachinery", "Processing",
                "Report", "Signature", "Feed"}

\* the group of the first interface, in priority order, that a class which
\* is not a marker type satisfies
ExpectedGroup(value) ==
    IF value \in MarkerTypes
       \/ \A i \in DOMAIN Interfaces : Interfaces[i] \notin LoadedClasses[value]
    THEN "none"
    ELSE GroupNames[CHOOSE i \in DOMAIN Interfaces :
                       /\ Interfaces[i] \in LoadedClasses[value]
                       /\ \A j \in 1..(i-1) :
                             Interfaces[j] \notin LoadedClasses[value]]

\* the number of entries for a class that the last call added to a group
Added(group, value) ==
    Count(GroupList(_modules, group), value)
        - Count(GroupList(reg_ev.before, group), value)

\* C20: a load_plugins call adds a class of the module to no group but the
\* one of the first interface it satisfies, and adds a marker type or a
\* class without interface to none; a call that returned has added every
\* other class of the module to that one group
C20_OneGroupByPriority ==
    reg_ev.op = "load_plugins" =>
        \A value \in DOMAIN LoadedClasses, i \in DOMAIN GroupNames :
            IF GroupNames[i] = ExpectedGroup(value) /\ reg_ev.result = "ok"
            THEN Added(GroupNames[i], value) = Count(reg_ev.module, value)
            ELSE IF GroupNames[i] = ExpectedGroup(value)
            THEN Added(GroupNames[i], value) <= Count(reg_ev.module, value)
            ELSE Added(GroupNames[i], value) = 0

C20_Witness ==
    /\ reg_ev.op = "load_plugins"
    /\ reg_ev.result = "ok"
    /\ reg_ev.module = <<"Both", "Processing", "Signature", "Static">>
    /\ GroupList(reg_ev.before, "processing") = <<"SigA">>
    /\ GroupList(_modules, "processing") = <<"SigA", "Both", "Static">>
    /\ GroupList(_modules, "signatures") = <<>>

\* C17: whenever the batch loop is about to take a signature, and after
\* every turn of it, the call log of every process is at its initial
\* position: after the evented pass has traversed the trace, and after a
\* batch signature that matched, failed, was skipped or read the logs
C17_BatchStartsAtInitialCursor ==
    /\ pc \in {"batch_begin", "batch"} => cursor = InitialCursor
    /\ ev.hook \in {"init", "run"} => cursor = InitialCursor

C17_Witness ==
    /\ pc = "batch"
    /\ results.behavior
    /\ partition0 # {}
    /\ ev.hook = "run"
    /\ ev.result = "truthy"
    /\ \E c \in consumed : c # ev.sig
    /\ cursor = InitialCursor

\* the registered signatures that are enabled, pass the version gate and
\* whose target-category filter admits the task
Admitted(c) ==
    /\ classes[c].enabled
    /\ _check_signature_version(classes[c].minimum, classes[c].maximum)
    /\ AnalysisTypeOk(classes[c].filter_analysistypes)

\* C18: the evented set holds exactly the registered signatures that are
\* enabled, evented, version-valid and whose target-category filter admits
\* the task; when run has ended every other enabled, version-valid signature
\* whose filter admits the task has been run once in the batch pass (unless
\* its constructor can raise), and a signature whose filter excludes the
\* task's category was in neither pass
C18_PartitionByAttributes ==
    LET registered == Range(modules0["signatures"])
    IN  /\ AfterOverlay =>
              \A c \in registered :
                  c \in partition0 <=> (Admitted(c) /\ classes[c].evented)
        /\ \A c \in registered : n_run[c] <= 1
        /\ pc = "done" =>
              \A c \in registered :
                  /\ (Admitted(c) /\ c \notin partition0
                        /\ SigHooks[c].init = {"ok"}) => n_run[c] = 1
                  /\ ~AnalysisTypeOk(classes[c].filter_analysistypes) =>
                        (c \notin partition0 /\ n_run[c] = 0)

\* C19: no signature has more than one Match Record in the match list
C19_AtMostOneMatchRecord ==
    \A c \in SigIds : Cardinality({i \in DOMAIN matched : matched[i].sig = c}) <= 1

(***************************************************************************)
(* The statistics entries of the evented pass.                             *)
(***************************************************************************)
\* the evented pass ran: line 392 gave every candidate's name an accumulator
EventedPassRan == DOMAIN stats # {}

\* the number of entries results["statistics"]["signatures"] holds for name
StatisticsEntries(name) ==
    IF name \in DOMAIN results.statistics THEN results.statistics[name] ELSE 0

\* the names of the signatures run put in evented_list
CandidateNames == {GetAttr(c, "name") : c \in partition0}

\* C21 as stated: once the evented pass is over and its statistics are
\* appended, the statistics list holds exactly one entry for every evented
\* signature that took part in the pass, whatever its accumulated time
C21_OneEntryPerEventedSignature ==
    (pc = "batch_begin" /\ EventedPassRan) =>
        \A c \in partition0 : StatisticsEntries(GetAttr(c, "name")) = 1

\* C21 amended: once the evented pass is over and its statistics are
\* appended, the accumulators are those of the evented candidates, the
\* statistics list holds exactly one entry for every name whose accumulated
\* time is not zero and none for a name whose accumulated time is zero,
\* whatever the signature's outcome; without an evented pass it holds none
C21_OneEntryPerNonZeroTime ==
    pc = "batch_begin" =>
        /\ EventedPassRan => DOMAIN stats = CandidateNames
        /\ DOMAIN results.statistics = {n \in DOMAIN stats : stats[n]}
        /\ \A n \in DOMAIN stats :
              StatisticsEntries(n) = IF stats[n] THEN 1 ELSE 0

\* the pass is over with two candidates resolved differently, one with an
\* entry and one whose time stayed zero without an entry
C21_Witness ==
    /\ pc = "batch_begin"
    /\ \E a, b \in partition0 :
          /\ outcome[a] = "matched" /\ outcome[b] \in {"raised", "none"}
          /\ stats[GetAttr(a, "name")] /\ ~stats[GetAttr(b, "name")]
          /\ StatisticsEntries(GetAttr(a, "name")) = 1
          /\ StatisticsEntries(GetAttr(b, "name")) = 0

(***************************************************************************)
(* The intrusion-alert rule of the family waterfall.                       *)
(***************************************************************************)
\* the tokens of an alert's signature string
Tokens(alert) == FindAll(alert.signature, <<>>)

\* the alert's signature string begins with a known trojan-alert prefix
IsTrojanAlert(alert) ==
    \/ StartsWith(alert.signature, ET_TROJAN)
    \/ StartsWith(alert.signature, ETPRO_TROJAN)

\* the candidate the stated steps take from an alert: the third token, the
\* fourth if the third is the platform tag; none when the string has too
\* few tokens
Candidate(alert) ==
    LET words == Tokens(alert)
    IN  IF ~IsTrojanAlert(alert) \/ Len(words) < 3 THEN <<>>
        ELSE IF Lower(words[3]) # win32 THEN words[3]
        ELSE IF Len(words) < 4 THEN <<>>
        ELSE words[4]

\* the name the stated steps give for an alert, empty when it gives none
StatedAlertName(alert) ==
    IF Candidate(alert) = <<>> \/ Lower(Candidate(alert)) \in blacklist
    THEN <<>>
    ELSE Title(SplitDot(Candidate(alert)))

\* the name the stated steps give for an alert list: that of the last alert
\* that gives one
StatedAlertsName(alerts) ==
    LET naming == {i \in DOMAIN alerts :
                     Candidate(alerts[i]) # <<>>
                     /\ Lower(Candidate(alerts[i])) \notin blacklist}
    IN  IF naming = {} THEN <<>>
        ELSE StatedAlertName(alerts[CHOOSE i \in naming : \A j \in naming : j <= i])

\* the intrusion-alert rule is the one to decide: the rules before it gave
\* no name and the aggregate holds alerts
AlertRuleReached ==
    /\ MatchFamilyName = <<>>
    /\ ReputationName = <<>>
    /\ results.suricata.present
    /\ results.suricata.alerts # <<>>

\* C22: the intrusion-alert rule never faults: the aggregation always ends
\* with malfamily set, and when the rule is reached malfamily is the name
\* the stated steps give for the alert list (third token, or the fourth
\* after the platform tag, rejected on the blocklist, cut at the first dot,
\* title-cased; an alert with too few tokens gives no candidate), else the
\* scanner rule's
C22_AlertRuleNeverFaults ==
    pc # "aggregate" =>
        /\ pc = "done"
        /\ "malfamily" \in results.keys
        /\ AlertRuleReached =>
              results.malfamily =
                  IF StatedAlertsName(results.suricata.alerts) # <<>>
                  THEN StatedAlertsName(results.suricata.alerts)
                  ELSE ScannerName

(***************************************************************************)
(* The order of results["signatures"].                                     *)
(***************************************************************************)
\* the records of severity v of a match list, in the list's order
OfSeverity(m, v) == SelectSeq(m, LAMBDA r : r.severity = v)

\* t holds the records of s in ascending severity, those of one severity in
\* the order they have in s
IsStableSortOf(t, s) ==
    /\ Len(t) = Len(s)
    /\ \A i, j \in DOMAIN t : i < j => t[i].severity <= t[j].severity
    /\ \A v \in {s[i].severity : i \in DOMAIN s} \cup {t[i].severity : i \in DOMAIN t} :
          OfSeverity(t, v) = OfSeverity(s, v)

\* the step invoked a hook whose result makes a Match Record
ProducesRecord ==
    /\ ev'.hook \in {"on_call", "on_complete", "run"}
    /\ ev'.result \in {"True", "truthy"}

\* C23: every step of the two passes leaves the match list as it is or,
\* when a hook matched, appends that signature's Match Record at its end;
\* the aggregation leaves results["signatures"] holding exactly these
\* records in ascending severity, records of equal severity in production
\* order
C23_SignaturesSortedStably ==
    [][IF pc = "aggregate"
       THEN /\ IsStableSortOf(matched', matched)
            /\ "signatures" \in results'.keys
       ELSE IF ProducesRecord
       THEN /\ Len(matched') = Len(matched) + 1
            /\ SubSeq(matched', 1, Len(matched)) = matched
            /\ matched'[Len(matched')].sig = ev'.sig
       ELSE matched' = matched]_vars

\* run has ended with a record of the batch pass sorted before a record of
\* the evented pass, and two records of one severity made by two signatures
C23_Witness ==
    /\ pc = "done"
    /\ \E i, j \in DOMAIN matched :
          /\ i < j
          /\ matched[i].severity < matched[j].severity
          /\ matched[i].sig \notin partition0 /\ n_run[matched[i].sig] > 0
          /\ matched[j].sig \in partition0 /\ outcome[matched[j].sig] = "matched"
    /\ \E i, j \in DOMAIN matched :
          /\ i < j
          /\ matched[i].severity = matched[j].severity
          /\ matched[i].sig # matched[j].sig

(***************************************************************************)
(* results["signatures"] during the batch pass.                            *)
(***************************************************************************)
\* the classes the compat loop has not reached yet
NotYetRun == {complete_list[k] : k \in iter..Len(complete_list)}

\* m holds a record made by class c
HasRecordOf(m, c) == \E i \in DOMAIN m : m[i].sig = c

\* C24: when the compat loop invokes run() of a signature, the key
\* "signatures" of the results is set and reads as the match list with every
\* record made so far, none of them made by a class the loop has not reached
\* (a class of the evented pass apart); a record the run() makes is read
\* there from then on
C24_SignaturesLiveDuringBatch ==
    [][(pc = "batch" /\ ev'.hook = "run") =>
          /\ "signatures" \in results.keys
          /\ ResultsSignatures = matched
          /\ \A c \in NotYetRun \ partition0 : ~HasRecordOf(ResultsSignatures, c)
          /\ \A c \in partition0 :
                outcome[c] = "matched" => HasRecordOf(ResultsSignatures, c)
          /\ ResultsSignatures' =
                IF ev'.result = "truthy"
                THEN Append(ResultsSignatures, as_result_fresh(ev'.sig))
                ELSE ResultsSignatures]_vars

\* the compat loop is about to run a signature while the results hold a
\* record of the evented pass and the record the previous batch signature
\* has just made
C24_Witness ==
    /\ pc = "batch"
    /\ iter <= Len(complete_list)
    /\ ev.hook = "run" /\ ev.result = "truthy"
    /\ HasRecordOf(ResultsSignatures, ev.sig)
    /\ \E c \in partition0 \ {ev.sig} :
          outcome[c] = "matched" /\ HasRecordOf(ResultsSignatures, c)
    /\ LET next == complete_list[iter]
       IN  /\ AnalysisTypeOk(classes[next].filter_analysistypes)
           /\ classes[next].enabled
           /\ _check_signature_version(classes[next].minimum, classes[next].maximum)
           /\ SigHooks[next].init = {"ok"}

(***************************************************************************)
(* An on_call hook that raises.                                            *)
(***************************************************************************)
\* the statements of the evented pass and of the link that follows it
InEventedPass == {"calls", "complete", "link", "batch_begin"}

\* C25: a step in which on_call of an evented signature raises makes no
\* Match Record, takes that instance and no other out of the active list and
\* leaves the pass at the same call; from then on the signature gets no
\* on_call and no on_complete and the evented pass makes no record of it;
\* and when the pass is over every other candidate is resolved or has had
\* its on_complete
C25_RaisingOnCallResolvesNotMatched ==
    [][/\ (ev'.hook = "on_call" /\ Raised(ev'.result)) =>
             /\ matched' = matched
             /\ ev'.sig \notin Range(evented_list')
             /\ Range(evented_list') = Range(evented_list) \ {ev'.sig}
             /\ outcome'[ev'.sig] = "raised"
             /\ pc' = "calls" /\ proc_i' = proc_i /\ call_i' = call_i
       /\ \A c \in SigIds :
             outcome[c] = "raised" =>
                /\ ~(ev'.hook \in {"on_call", "on_complete"} /\ ev'.sig = c)
                /\ outcome'[c] = "raised"
                /\ n_complete'[c] = 0
                /\ c \notin Range(evented_list')
                /\ pc' \in InEventedPass => ~HasRecordOf(matched', c)
       /\ (pc' = "link" /\ \E c \in SigIds : outcome[c] = "raised") =>
             \A d \in partition0 : outcome[d] # "none" \/ n_complete[d] = 1]_vars

\* the evented pass is over: the on_call of one signature raised and left
\* no record, and another signature stayed active to the end of the trace,
\* had its on_complete and matched there
C25_Witness ==
    /\ pc = "link"
    /\ \E c, d \in partition0 :
          /\ outcome[c] = "raised" /\ n_complete[c] = 0
          /\ ~HasRecordOf(matched, c)
          /\ outcome[d] = "none" /\ n_complete[d] = 1
          /\ HasRecordOf(matched, d)
====
